---- MODULE Spec2Model ----
(***************************************************************************)
(* Model of the collaboration orchestrator (backend/agents/a2a_manager.py), *)
(* the streaming endpoint (backend/api/agents_a2a.py) and the short-term   *)
(* memory buffer (backend/agents/memory.py).                               *)
(*                                                                         *)
(* A coroutine is modelled at the granularity asyncio gives it: one action *)
(* runs from one suspension point (await send_message, or a yield of the   *)
(* async generator) to the next.                                           *)
(***************************************************************************)
EXTENDS Integers, Sequences, FiniteSets, TLC

\* ------------------------------------------------------------------ bounds
MaxAgents == 2
MaxRounds == 3
MaxTurns == 6
MaxCapacity == 2
MaxInserts == 5

\* ------------------------------------------------------------ input domains
Ids == {"a1", "a2", "a3"}
NoId == ""
Tasks == {"T1"}
Outcomes == {"ok", "raise"}
Contents == {"m1", "m2"}

RECURSIVE SeqsUpTo(_, _)
SeqsUpTo(S, n) ==
    IF n = 0 THEN {<<>>}
    ELSE LET shorter == SeqsUpTo(S, n - 1)
         IN  shorter \cup {Append(s, x) : s \in {t \in shorter : Len(t) = n - 1}, x \in S}

AgentIdLists == SeqsUpTo(Ids, MaxAgents)

\* The arguments of a collaboration call: agent_ids, coordinator_id (NoId when
\* omitted), max_rounds, task.
CallArgs ==
    {args \in AgentIdLists \X (Ids \cup {NoId}) \X (0..MaxRounds) \X Tasks :
        Len(args[1]) * args[3] <= MaxTurns}

Range(s) == {s[i] : i \in 1..Len(s)}
Last(s) == s[Len(s)]
MapSeq(s, F(_)) == [i \in 1..Len(s) |-> F(s[i])]

VARIABLES
    agents,               \* A2AAgentManager.agents: the registered agent ids
    agent_metadata,       \* A2AAgentManager.agent_metadata: id -> config name
    calls,                \* locals of two collaborate_agents calls running at once
    environment_context,  \* executor.memory.environment_context of each agent
    collab,               \* locals of one collaborate_agents call
    gen,                  \* locals of one collaborate_agents_stream generator
    observed,             \* what the generator's consumer saw at each yield
    oracle,               \* outcome of every agent turn so far, in turn order
    sent,                 \* prompts handed to send_message by collaborate_agents
    gen_sent,             \* prompts handed to send_message by the generator
    inflight,             \* turns awaiting send_message in collaborate_agents
    producer,             \* run_collaboration task of collaborate_stream
    consumer,             \* event_generator of collaborate_stream
    message_queue,        \* the asyncio.Queue between the two
    sse,                  \* what event_generator has yielded to the client
    enqueued,             \* every item ever put on the queue
    short_term_capacity,  \* AgentMemory.short_term_capacity
    short_term_memory,    \* AgentMemory.short_term_memory (deque)
    inserted,             \* every item add_to_short_term has appended
    now,                  \* the clock read by datetime.now
    recalled,             \* the last get_short_term_memory call since the buffer was written
    long_term_memory,     \* rows of the long_term_memory table
    search_result,        \* the last search_long_term_memory call and its result
    task_history,         \* rows of the task_history table
    cache,                \* ToolResultCache.cache, entries in dict order
    ttl_seconds,          \* ToolResultCache.ttl_seconds
    max_size,             \* ToolResultCache.max_size
    cache_result,         \* the last ToolResultCache.get/set call and its result
    tools,                \* EnhancedToolManager.tools: name -> is_builtin
    mcp_client,           \* EnhancedToolManager.mcp_client (present or None)
    execution_history,    \* ToolExecutionTracker.execution_history
    tool_statistics,      \* ToolExecutionTracker.tool_statistics
    pending_call,         \* the execute_tool call awaiting its external tool
    tool_return,          \* the last execute_tool call and how it ended
    invocations,          \* handler / external calls made so far, in order
    discover_return,      \* the last discover_tools call and what it returned
    perception_state,     \* CognitiveProcessor.perception_state
    reasoning_chain,      \* CognitiveProcessor.reasoning_chain
    decision,             \* the last decide call: its number, arguments and Decision
    current_plan,         \* CognitiveProcessor.current_plan
    plan_update,          \* the last update_plan_status call and the plan status it found
    run,                  \* locals of the last LLMAgentExecutor.execute call of a1
    agent_cards,          \* A2AAgentManager.agent_cards: its keys
    request_handlers,     \* A2AAgentManager.request_handlers: its keys
    task_stores,          \* A2AAgentManager.task_stores: its keys
    clients,              \* MCPManager.clients: its keys
    executor_mcp_client,  \* whether the executor registered under an id has an mcp_client
    lifecycle             \* the create / update / delete / cleanup_all / send_message calls so far

managerVars == <<agents, agent_metadata, calls>>
collabVars == <<collab, sent, inflight>>
genVars == <<gen, observed, gen_sent>>
streamVars == <<producer, consumer, message_queue, sse, enqueued>>
memVars == <<short_term_capacity, short_term_memory, inserted, now, recalled>>
ltmVars == <<long_term_memory, search_result, task_history>>
cacheVars == <<cache, ttl_seconds, max_size, cache_result>>
toolVars == <<tools, mcp_client, execution_history, tool_statistics, pending_call,
              tool_return, invocations, discover_return>>
cogVars == <<perception_state, reasoning_chain, decision, current_plan, plan_update>>
runVars == <<run>>
registryVars == <<agent_cards, request_handlers, task_stores, clients, executor_mcp_client,
                  lifecycle>>
\* The components of one agent other than its short-term memory.
executorVars == <<ltmVars, cacheVars, toolVars, cogVars>>
vars == <<agents, agent_metadata, calls, environment_context, collab, gen, observed,
          oracle, sent, gen_sent, inflight, producer, consumer, message_queue,
          sse, enqueued, short_term_capacity, short_term_memory, inserted, now,
          recalled, long_term_memory, search_result, task_history, cache, ttl_seconds, max_size,
          cache_result, tools, mcp_client, execution_history, tool_statistics,
          pending_call, tool_return, invocations, discover_return, perception_state,
          reasoning_chain, decision, current_plan, plan_update, run, agent_cards,
          request_handlers, task_stores, clients, executor_mcp_client, lifecycle>>

\* ------------------------------------------------------------------ events
NoText == [by |-> NoId, r |-> 0]
NoContent == [name |-> NoId, err |-> FALSE, text |-> NoText]
NoRef == "none"
StatusRef == "agent_task_status"

\* The text an agent's turn produces, or the text of the exception it raises.
Reply(agent_id, round) == [by |-> agent_id, r |-> round]

BlankEvent ==
    [role |-> "system", kind |-> "start", task |-> NoId, content |-> NoContent,
     agent_id |-> NoId, agent_name |-> NoId, round |-> 0, completed |-> FALSE,
     error |-> FALSE, all_completed |-> FALSE, agent_status |-> NoRef,
     total_rounds |-> 0]

StartEvent(task) == [BlankEvent EXCEPT !.kind = "start", !.task = task]

AgentEvent(agent_id, agent_name, round, text) ==
    [BlankEvent EXCEPT !.role = "agent", !.kind = "agent",
        !.content = [name |-> agent_name, err |-> FALSE, text |-> text],
        !.agent_id = agent_id, !.agent_name = agent_name, !.round = round,
        !.completed = TRUE]

ErrorEvent(agent_id, agent_name, round, text) ==
    [BlankEvent EXCEPT !.role = "agent", !.kind = "agent",
        !.content = [name |-> agent_name, err |-> TRUE, text |-> text],
        !.agent_id = agent_id, !.agent_name = agent_name, !.round = round,
        !.error = TRUE, !.completed = FALSE]

\* agent_task_status.copy() is a shallow copy: the event keeps references to
\* the tracker's per-agent records.
RoundEvent(round, all_completed) ==
    [BlankEvent EXCEPT !.kind = "round", !.round = round,
        !.all_completed = all_completed, !.agent_status = StatusRef]

FinalEvent(max_rounds) == [BlankEvent EXCEPT !.kind = "final", !.total_rounds = max_rounds]

EmptyStatus == [a \in {} |-> [completed |-> FALSE, result |-> NoText]]

\* What a reader of an event sees while the tracker holds `status`.
View(ev, status) ==
    [ev EXCEPT !.agent_status = IF ev.agent_status = StatusRef THEN status ELSE EmptyStatus]

ViewAll(history, status) == MapSeq(history, LAMBDA ev : View(ev, status))

\* ----------------------------------------------------------------- manager
AgentName(metadata, agent_id) ==
    IF agent_id \in DOMAIN metadata THEN metadata[agent_id] ELSE agent_id

Merge(context, update) ==
    [k \in DOMAIN context \cup DOMAIN update |->
        IF k \in DOMAIN update THEN update[k] ELSE context[k]]

\* Validate without the check of an explicit coordinator.
ValidateAgentsOnly(registered, agent_ids, coordinator_id) ==
    IF agent_ids = <<>> THEN "no_agents"
    ELSE IF \E i \in 1..Len(agent_ids) : agent_ids[i] \notin registered THEN "agent_not_found"
    ELSE "ok"

Validate(registered, agent_ids, coordinator_id) ==
    IF agent_ids = <<>> THEN "no_agents"
    ELSE IF \E i \in 1..Len(agent_ids) : agent_ids[i] \notin registered THEN "agent_not_found"
    ELSE IF coordinator_id # NoId /\ coordinator_id \notin registered THEN "coordinator_not_found"
    ELSE "ok"

Coordinator(agent_ids, coordinator_id) ==
    IF coordinator_id # NoId THEN coordinator_id ELSE agent_ids[1]

CollaborationContext(agent_ids, coordinator_id, task) ==
    [in_collaboration |-> TRUE, total_agents |-> Len(agent_ids), agent_ids |-> agent_ids,
     coordinator_id |-> coordinator_id, task |-> task]

\* EnterCollaboration that leaves alone an agent already in a collaboration.
EnterCollaborationUnlessBusy(env, registered, agent_ids, coordinator_id, task) ==
    [a \in DOMAIN env |->
        IF /\ a \in Range(agent_ids) /\ a \in registered
           /\ ~("in_collaboration" \in DOMAIN env[a] /\ env[a].in_collaboration)
        THEN Merge(env[a], CollaborationContext(agent_ids, coordinator_id, task))
        ELSE env[a]]

EnterCollaboration(env, registered, agent_ids, coordinator_id, task) ==
    [a \in DOMAIN env |->
        IF a \in Range(agent_ids) /\ a \in registered
        THEN Merge(env[a], CollaborationContext(agent_ids, coordinator_id, task))
        ELSE env[a]]

\* LeaveCollaboration with the flag cleared for the first agent only.
LeaveCollaborationFirstOnly(env, registered, agent_ids) ==
    [a \in DOMAIN env |->
        IF a = agent_ids[1] /\ a \in registered
        THEN Merge(env[a], [in_collaboration |-> FALSE])
        ELSE env[a]]

LeaveCollaboration(env, registered, agent_ids) ==
    [a \in DOMAIN env |->
        IF a \in Range(agent_ids) /\ a \in registered
        THEN Merge(env[a], [in_collaboration |-> FALSE])
        ELSE env[a]]

InitialStatus(agent_ids) ==
    [a \in Range(agent_ids) |-> [completed |-> FALSE, result |-> NoText]]

\* The end-of-round reset leaving the completion flags as they are.
ResetStatusKeepsFlags(status) == status
ResetStatus(status) == [a \in DOMAIN status |-> [status[a] EXCEPT !.completed = FALSE]]

\* all(...) taken as any(...).
AllCompletedAny(status) == \E a \in DOMAIN status : status[a].completed

AllCompleted(status) == \A a \in DOMAIN status : status[a].completed

\* ----------------------------------------------------------------- prompts
BlankPrompt ==
    [kind |-> "none", round |-> 0, max_rounds |-> 0, task |-> NoId, n_others |-> 0,
     others |-> <<>>, results |-> <<>>, no_responses |-> FALSE, remaining |-> 0,
     latest |-> NoContent]

\* PromptFor with the worker given the first coordinator message of the run.
PromptForFirstCoordination(history, metadata, agent_ids, coordinator_id, max_rounds, task, round_num, agent_id) ==
    LET coordinator_messages ==
            SelectSeq(history, LAMBDA msg :
                msg.role = "agent" /\ msg.agent_id = coordinator_id)
    IN  IF agent_id # coordinator_id /\ coordinator_messages # <<>>
        THEN [BlankPrompt EXCEPT !.kind = "worker", !.round = round_num + 1,
                 !.max_rounds = max_rounds,
                 !.latest = coordinator_messages[1].content]
        ELSE [BlankPrompt EXCEPT !.kind = "worker_fallback", !.round = round_num + 1,
                 !.max_rounds = max_rounds, !.task = task]

\* PromptFor with the review made of the worker results of every round.
PromptForAllRounds(history, metadata, agent_ids, coordinator_id, max_rounds, task, round_num, agent_id) ==
    LET worker_results ==
            SelectSeq(history, LAMBDA msg :
                msg.role = "agent" /\ msg.agent_id # coordinator_id)
    IN  IF agent_id = coordinator_id /\ round_num > 0
        THEN [BlankPrompt EXCEPT !.kind = "coordinator_review", !.round = round_num + 1,
                 !.max_rounds = max_rounds,
                 !.results = MapSeq(worker_results, LAMBDA msg :
                                 [name |-> msg.agent_name, content |-> msg.content]),
                 !.no_responses = (worker_results = <<>>),
                 !.remaining = max_rounds - round_num]
        ELSE [BlankPrompt EXCEPT !.kind = "coordinator_initial", !.round = 1,
                 !.max_rounds = max_rounds, !.task = task,
                 !.n_others = Len(agent_ids) - 1]

\* PromptFor with the error events left out of what the prompts quote.
PromptForSkipsErrors(history, metadata, agent_ids, coordinator_id, max_rounds, task, round_num, agent_id) ==
    IF agent_id = coordinator_id
    THEN IF round_num = 0
         THEN LET other_agents == SelectSeq(agent_ids, LAMBDA aid : aid # coordinator_id)
              IN  [BlankPrompt EXCEPT !.kind = "coordinator_initial", !.round = 1,
                      !.max_rounds = max_rounds, !.task = task,
                      !.n_others = Len(agent_ids) - 1,
                      !.others = MapSeq(other_agents, LAMBDA aid : AgentName(metadata, aid))]
         ELSE LET worker_results ==
                      SelectSeq(history, LAMBDA msg :
                          /\ msg.role = "agent" /\ ~msg.error
                          /\ msg.round = round_num
                          /\ msg.agent_id # coordinator_id)
              IN  [BlankPrompt EXCEPT !.kind = "coordinator_review", !.round = round_num + 1,
                      !.max_rounds = max_rounds,
                      !.results = MapSeq(worker_results, LAMBDA msg :
                                      [name |-> msg.agent_name, content |-> msg.content]),
                      !.no_responses = (worker_results = <<>>),
                      !.remaining = max_rounds - round_num]
    ELSE LET coordinator_messages ==
                 SelectSeq(history, LAMBDA msg :
                     msg.role = "agent" /\ ~msg.error /\ msg.agent_id = coordinator_id)
         IN  IF coordinator_messages # <<>>
             THEN [BlankPrompt EXCEPT !.kind = "worker", !.round = round_num + 1,
                      !.max_rounds = max_rounds,
                      !.latest = Last(coordinator_messages).content]
             ELSE [BlankPrompt EXCEPT !.kind = "worker_fallback", !.round = round_num + 1,
                      !.max_rounds = max_rounds, !.task = task]
\* The message_to_send built for agent_id in 0-based round round_num from the
\* agent events of `history`.
PromptFor(history, metadata, agent_ids, coordinator_id, max_rounds, task, round_num, agent_id) ==
    IF agent_id = coordinator_id
    THEN IF round_num = 0
         THEN LET other_agents == SelectSeq(agent_ids, LAMBDA aid : aid # coordinator_id)
              IN  [BlankPrompt EXCEPT !.kind = "coordinator_initial", !.round = 1,
                      !.max_rounds = max_rounds, !.task = task,
                      !.n_others = Len(agent_ids) - 1,
                      !.others = MapSeq(other_agents, LAMBDA aid : AgentName(metadata, aid))]
         ELSE LET worker_results ==
                      SelectSeq(history, LAMBDA msg :
                          /\ msg.role = "agent"
                          /\ msg.round = round_num
                          /\ msg.agent_id # coordinator_id)
              IN  [BlankPrompt EXCEPT !.kind = "coordinator_review", !.round = round_num + 1,
                      !.max_rounds = max_rounds,
                      !.results = MapSeq(worker_results, LAMBDA msg :
                                      [name |-> msg.agent_name, content |-> msg.content]),
                      !.no_responses = (worker_results = <<>>),
                      !.remaining = max_rounds - round_num]
    ELSE LET coordinator_messages ==
                 SelectSeq(history, LAMBDA msg :
                     msg.role = "agent" /\ msg.agent_id = coordinator_id)
         IN  IF coordinator_messages # <<>>
             THEN [BlankPrompt EXCEPT !.kind = "worker", !.round = round_num + 1,
                      !.max_rounds = max_rounds,
                      !.latest = Last(coordinator_messages).content]
             ELSE [BlankPrompt EXCEPT !.kind = "worker_fallback", !.round = round_num + 1,
                      !.max_rounds = max_rounds, !.task = task]

\* ------------------------------------------------ collaborate_agents (buffered)
IdleCall ==
    [pc |-> "idle", error |-> "none", agent_ids |-> <<>>, coordinator_arg |-> NoId,
     coordinator_id |-> NoId, max_rounds |-> 0, task |-> NoId, round_num |-> 0,
     idx |-> 0, history |-> <<>>, agent_task_status |-> EmptyStatus,
     message_to_send |-> BlankPrompt, pending_error |-> FALSE, out |-> BlankEvent]

CurrentAgent(c) == c.agent_ids[c.idx + 1]

\* Build the prompt of the current turn and suspend in send_message.
Dispatch(c, metadata) ==
    [c EXCEPT !.pc = "await",
        !.message_to_send = PromptFor(c.history, metadata, c.agent_ids, c.coordinator_id,
                                      c.max_rounds, c.task, c.round_num, CurrentAgent(c))]

\* EnterRound with an early exit once a round summary says all completed.
EnterRoundUntilCompleted(c, metadata) ==
    IF /\ c.round_num < c.max_rounds
       /\ ~(c.history # <<>> /\ Last(c.history).kind = "round" /\ Last(c.history).all_completed)
    THEN Dispatch(c, metadata)
    ELSE [c EXCEPT !.pc = "finalize"]

\* Top of `for round_num in range(max_rounds)`.
EnterRound(c, metadata) ==
    IF c.round_num < c.max_rounds THEN Dispatch(c, metadata) ELSE [c EXCEPT !.pc = "finalize"]

\* RecordTurn with a failed turn swallowed: no event for it.
RecordTurnSilent(c, metadata, outcome) ==
    LET agent_id == CurrentAgent(c)
        agent_name == AgentName(metadata, agent_id)
        text == Reply(agent_id, c.round_num + 1)
    IN  IF outcome = "ok"
        THEN [c EXCEPT
                !.agent_task_status[agent_id] = [completed |-> TRUE, result |-> text],
                !.history = Append(@, AgentEvent(agent_id, agent_name, c.round_num + 1, text))]
        ELSE [c EXCEPT !.agent_task_status[agent_id].completed = FALSE]

\* The try/except around send_message.
RecordTurn(c, metadata, outcome) ==
    LET agent_id == CurrentAgent(c)
        agent_name == AgentName(metadata, agent_id)
        text == Reply(agent_id, c.round_num + 1)
    IN  IF outcome = "ok"
        THEN [c EXCEPT
                !.agent_task_status[agent_id] = [completed |-> TRUE, result |-> text],
                !.history = Append(@, AgentEvent(agent_id, agent_name, c.round_num + 1, text))]
        ELSE [c EXCEPT
                !.history = Append(@, ErrorEvent(agent_id, agent_name, c.round_num + 1, text)),
                !.agent_task_status[agent_id].completed = FALSE]

\* Round summary, reset of the completion flags, next round_num.
EndRound(c) ==
    [c EXCEPT
        !.history = Append(@, RoundEvent(c.round_num + 1, AllCompleted(c.agent_task_status))),
        !.agent_task_status = ResetStatus(@),
        !.round_num = @ + 1,
        !.idx = 0]

\* AfterTurn with a failed turn ending its round at once.
AfterTurnAbortRound(c, metadata) ==
    IF c.idx + 1 < Len(c.agent_ids) /\ ~Last(c.history).error
    THEN Dispatch([c EXCEPT !.idx = @ + 1], metadata)
    ELSE EnterRound(EndRound(c), metadata)

\* The loop body after the try/except: the next agent, or the end of the round.
AfterTurn(c, metadata) ==
    IF c.idx + 1 < Len(c.agent_ids)
    THEN Dispatch([c EXCEPT !.idx = @ + 1], metadata)
    ELSE EnterRound(EndRound(c), metadata)

\* Clearing the collaboration flag and the final summary.
Finalize(c) ==
    IF c.pc = "finalize"
    THEN [c EXCEPT !.pc = "done", !.history = Append(@, FinalEvent(c.max_rounds))]
    ELSE c

FinalizeEnv(c, env, registered) ==
    IF c.pc = "finalize" THEN LeaveCollaboration(env, registered, c.agent_ids) ELSE env

Started(agent_ids, coordinator_arg, max_rounds, task) ==
    [IdleCall EXCEPT !.agent_ids = agent_ids, !.coordinator_arg = coordinator_arg,
        !.coordinator_id = Coordinator(agent_ids, coordinator_arg),
        !.max_rounds = max_rounds, !.task = task,
        !.history = <<StartEvent(task)>>,
        !.agent_task_status = InitialStatus(agent_ids)]

Rejected(agent_ids, coordinator_arg, max_rounds, task, error) ==
    [IdleCall EXCEPT !.pc = "raised", !.error = error, !.agent_ids = agent_ids,
        !.coordinator_arg = coordinator_arg, !.max_rounds = max_rounds, !.task = task]

\* Dispatched with the rest of the round sent at once.
DispatchedAll(c) ==
    IF c.pc = "await"
    THEN {<<c.round_num, i>> : i \in c.idx..(Len(c.agent_ids) - 1)}
    ELSE {}

\* The turns collaborate_agents hands to send_message when it dispatches.
Dispatched(c) == IF c.pc = "await" THEN {<<c.round_num, c.idx>>} ELSE {}

SentBy(c) ==
    IF c.pc = "await"
    THEN <<[agent_id |-> CurrentAgent(c), prompt |-> c.message_to_send]>>
    ELSE <<>>

\* collaborate_agents from its call to its first await (or to its return).
CollabCall(agent_ids, coordinator_arg, max_rounds, task) ==
    /\ collab.pc = "idle"
    /\ LET verdict == Validate(agents, agent_ids, coordinator_arg)
       IN  IF verdict # "ok"
           THEN /\ collab' = Rejected(agent_ids, coordinator_arg, max_rounds, task, verdict)
                /\ UNCHANGED <<environment_context, sent, inflight>>
           ELSE LET c0 == Started(agent_ids, coordinator_arg, max_rounds, task)
                    env0 == EnterCollaboration(environment_context, agents, agent_ids,
                                               c0.coordinator_id, task)
                    c1 == EnterRound(c0, agent_metadata)
                IN  /\ collab' = Finalize(c1)
                    /\ environment_context' = FinalizeEnv(c1, env0, agents)
                    /\ sent' = sent \o SentBy(c1)
                    /\ inflight' = inflight \cup Dispatched(c1)
    /\ UNCHANGED <<managerVars, registryVars, runVars, executorVars, genVars, streamVars, memVars, oracle>>

\* send_message returns or raises; collaborate_agents runs to its next await.
CollabTurnDone(outcome) ==
    /\ collab.pc = "await"
    /\ LET c1 == RecordTurn(collab, agent_metadata, outcome)
           c2 == AfterTurn(c1, agent_metadata)
       IN  /\ collab' = Finalize(c2)
           /\ environment_context' = FinalizeEnv(c2, environment_context, agents)
           /\ sent' = sent \o SentBy(c2)
           /\ inflight' = (inflight \ {<<collab.round_num, collab.idx>>}) \cup Dispatched(c2)
    /\ oracle' = Append(oracle, outcome)
    /\ UNCHANGED <<managerVars, registryVars, runVars, executorVars, genVars, streamVars, memVars>>

\* --------------------------------------- collaborate_agents_stream (generator)
YieldPcs == {"y_init", "y_agent", "y_round", "y_final"}
ResumablePcs == YieldPcs \cup {"created"}

Created(agent_ids, coordinator_arg, max_rounds, task) ==
    [IdleCall EXCEPT !.pc = "created", !.agent_ids = agent_ids,
        !.coordinator_arg = coordinator_arg, !.max_rounds = max_rounds, !.task = task]

\* First resumption: validation, the tracker, and the yield of init_msg.
GenBegin(g, registered) ==
    LET verdict == Validate(registered, g.agent_ids, g.coordinator_arg)
    IN  IF verdict # "ok"
        THEN [g EXCEPT !.pc = "raised", !.error = verdict]
        ELSE [g EXCEPT !.pc = "y_init",
                !.coordinator_id = Coordinator(g.agent_ids, g.coordinator_arg),
                !.agent_task_status = InitialStatus(g.agent_ids),
                !.out = StartEvent(g.task)]

\* Clearing the collaboration flag and the yield of final_msg.
GenFinalize(g) ==
    IF g.pc = "finalize"
    THEN [g EXCEPT !.pc = "y_final", !.out = FinalEvent(g.max_rounds)]
    ELSE g

\* After the yield of an agent or error message: the rest of the loop body,
\* then the next turn or the yield of round_msg.
GenAfterAgent(g, metadata) ==
    LET g1 == IF g.pending_error
              THEN [g EXCEPT !.agent_task_status[CurrentAgent(g)].completed = FALSE,
                             !.pending_error = FALSE]
              ELSE g
    IN  IF g1.idx + 1 < Len(g1.agent_ids)
        THEN Dispatch([g1 EXCEPT !.idx = @ + 1], metadata)
        ELSE [g1 EXCEPT !.pc = "y_round",
                 !.out = RoundEvent(g1.round_num + 1, AllCompleted(g1.agent_task_status))]

\* After the yield of round_msg: reset of the flags and the next round.
GenAfterRound(g, metadata) ==
    GenFinalize(EnterRound([g EXCEPT !.agent_task_status = ResetStatus(@),
                                     !.round_num = @ + 1, !.idx = 0], metadata))

\* One resumption of the generator by __anext__, up to its next yield or await.
GenStep(g, metadata, registered) ==
    CASE g.pc = "created" -> GenBegin(g, registered)
      [] g.pc = "y_init"  -> GenFinalize(EnterRound(g, metadata))
      [] g.pc = "y_agent" -> GenAfterAgent(g, metadata)
      [] g.pc = "y_round" -> GenAfterRound(g, metadata)
      [] g.pc = "y_final" -> [g EXCEPT !.pc = "done"]
      [] OTHER -> g

\* The environment contexts after that same resumption.
GenStepEnv(g, env, registered) ==
    LET entered == IF g.pc = "y_init"
                   THEN EnterCollaboration(env, registered, g.agent_ids, g.coordinator_id, g.task)
                   ELSE env
        leaves == \/ g.pc = "y_init" /\ g.max_rounds <= 0
                  \/ g.pc = "y_round" /\ g.round_num + 1 >= g.max_rounds
    IN  IF leaves THEN LeaveCollaboration(entered, registered, g.agent_ids) ELSE entered

\* GenRecordTurn with the exception of a failed turn leaving the generator.
GenRecordTurnPropagates(g, metadata, outcome) ==
    LET agent_id == CurrentAgent(g)
        agent_name == AgentName(metadata, agent_id)
        text == Reply(agent_id, g.round_num + 1)
        agent_msg == AgentEvent(agent_id, agent_name, g.round_num + 1, text)
    IN  IF outcome = "ok"
        THEN [g EXCEPT !.pc = "y_agent",
                !.agent_task_status[agent_id] = [completed |-> TRUE, result |-> text],
                !.history = Append(@, agent_msg), !.out = agent_msg]
        ELSE [g EXCEPT !.pc = "raised", !.error = "turn_failed"]

\* send_message returns or raises inside the generator: up to the yield of
\* agent_msg or error_msg.
GenRecordTurn(g, metadata, outcome) ==
    LET agent_id == CurrentAgent(g)
        agent_name == AgentName(metadata, agent_id)
        text == Reply(agent_id, g.round_num + 1)
        agent_msg == AgentEvent(agent_id, agent_name, g.round_num + 1, text)
        error_msg == ErrorEvent(agent_id, agent_name, g.round_num + 1, text)
    IN  IF outcome = "ok"
        THEN [g EXCEPT !.pc = "y_agent",
                !.agent_task_status[agent_id] = [completed |-> TRUE, result |-> text],
                !.history = Append(@, agent_msg), !.out = agent_msg]
        ELSE [g EXCEPT !.pc = "y_agent", !.pending_error = TRUE,
                !.history = Append(@, error_msg), !.out = error_msg]

\* A caller creates the generator with the arguments of the finished
\* collaborate_agents call.
GenCreate ==
    /\ collab.pc \in {"done", "raised"}
    /\ gen.pc = "idle"
    /\ producer.pc = "none"
    /\ gen' = Created(collab.agent_ids, collab.coordinator_arg, collab.max_rounds, collab.task)
    /\ UNCHANGED <<managerVars, registryVars, runVars, executorVars, environment_context, collabVars, observed, gen_sent,
                   oracle, streamVars, memVars>>

\* `async for` asks for the next event and reads it as soon as it is yielded.
GenNext ==
    /\ gen.pc \in ResumablePcs
    /\ producer.pc = "none"
    /\ LET g1 == GenStep(gen, agent_metadata, agents)
       IN  /\ gen' = g1
           /\ environment_context' = GenStepEnv(gen, environment_context, agents)
           /\ observed' = IF g1.pc \in YieldPcs
                          THEN Append(observed, View(g1.out, g1.agent_task_status))
                          ELSE observed
           /\ gen_sent' = gen_sent \o SentBy(g1)
    /\ UNCHANGED <<managerVars, registryVars, runVars, executorVars, collabVars, oracle, streamVars, memVars>>

\* The turn ends as the same turn ended in the collaborate_agents call.
GenTurnDone ==
    /\ gen.pc = "await"
    /\ producer.pc = "none"
    /\ Len(gen.history) < Len(oracle)
    /\ LET g1 == GenRecordTurn(gen, agent_metadata, oracle[Len(gen.history) + 1])
       IN  /\ gen' = g1
           /\ observed' = Append(observed, View(g1.out, g1.agent_task_status))
    /\ UNCHANGED <<managerVars, registryVars, runVars, executorVars, environment_context, collabVars, gen_sent, oracle,
                   streamVars, memVars>>

\* -------------------------------------------------------------- initial state
NotConstructed == -1
InitialAgents == {"a1", "a2"}
InitialMetadata == [a \in InitialAgents |-> IF a = "a1" THEN "Alice" ELSE "Bob"]
InitialEnvironment == [a \in InitialAgents |-> [locale |-> "en"]]
\* a1 was created with MCP servers configured, a2 without.
InitialMcpClient == [a \in InitialAgents |-> a = "a1"]
InitialClients == {a \in InitialAgents : InitialMcpClient[a]}

\* Nothing called yet on the agent's memory, cache, tool manager and
\* cognitive processor.
NoRecall == [called |-> FALSE, given |-> FALSE, limit |-> 0, buffer |-> <<>>, items |-> <<>>]
NoSearch == [n |-> 0, memory_type |-> "", limit |-> 0, min_importance |-> 0,
             memories |-> <<>>]
NoResult == "None"
NoCacheCall == [op |-> "none", tool_name |-> "", arguments |-> <<>>, result |-> NoResult,
                raised |-> FALSE, at |-> 0, removed |-> <<>>]
NoTools == [name \in {} |-> TRUE]
NoStatistics == [name \in {} |-> 0]
NoArguments == <<>>
NoCall == [pc |-> "none", tool_name |-> "", arguments |-> NoArguments,
           use_cache |-> FALSE, start_time |-> 0]
NoReturn == [called |-> FALSE, tool_name |-> "", arguments |-> NoArguments,
             use_cache |-> FALSE, outcome |-> "not_invoked", raised |-> FALSE,
             success |-> FALSE, result |-> NoResult, error |-> NoResult]
NoDiscovery == [called |-> FALSE, failed |-> FALSE, listed |-> {}, names |-> {}]
NoPerception == [perceived |-> FALSE, current_message |-> {}, message_length |-> 0,
                 context_size |-> 0, has_tools |-> FALSE, in_collaboration |-> FALSE,
                 complexity |-> "low", intent |-> "general", urgency |-> "low"]
NoDecision == [n |-> 0, conclusion |-> {}, complexity |-> "low", has_tools |-> FALSE,
               in_collaboration |-> FALSE, decision_type |-> "None",
               action |-> "None", confidence |-> 0]

NoPlan == [exists |-> FALSE, decision_type |-> "None", status |-> "None", steps |-> 0,
           current_step |-> 0, results |-> <<>>]
NoPlanUpdate == [n |-> 0, step_number |-> 0, status |-> "None", result |-> "None",
                 found |-> "None"]

NoRun == [pc |-> "idle", n |-> 0, task_id |-> "None", row |-> 0, statuses |-> <<>>,
          published |-> <<>>]

Init ==
    /\ agents = InitialAgents
    /\ agent_metadata = InitialMetadata
    /\ calls = [i \in 1..2 |-> IdleCall]
    /\ environment_context = InitialEnvironment
    /\ collab = IdleCall
    /\ gen = IdleCall
    /\ observed = <<>>
    /\ oracle = <<>>
    /\ sent = <<>>
    /\ gen_sent = <<>>
    /\ inflight = {}
    /\ producer = [pc |-> "none"]
    /\ consumer = [pc |-> "none"]
    /\ message_queue = <<>>
    /\ sse = <<>>
    /\ enqueued = <<>>
    /\ short_term_capacity = NotConstructed
    /\ short_term_memory = <<>>
    /\ inserted = <<>>
    /\ now = 1
    /\ recalled = NoRecall
    /\ long_term_memory = <<>>
    /\ search_result = NoSearch
    /\ task_history = <<>>
    /\ cache = <<>>
    /\ ttl_seconds = NotConstructed
    /\ max_size = NotConstructed
    /\ cache_result = NoCacheCall
    /\ tools = NoTools
    /\ mcp_client = FALSE
    /\ execution_history = <<>>
    /\ tool_statistics = NoStatistics
    /\ pending_call = NoCall
    /\ tool_return = NoReturn
    /\ invocations = <<>>
    /\ discover_return = NoDiscovery
    /\ perception_state = NoPerception
    /\ reasoning_chain = <<>>
    /\ decision = NoDecision
    /\ current_plan = NoPlan
    /\ plan_update = NoPlanUpdate
    /\ run = NoRun
    /\ agent_cards = InitialAgents
    /\ request_handlers = InitialAgents
    /\ task_stores = InitialAgents
    /\ clients = InitialClients
    /\ executor_mcp_client = InitialMcpClient
    /\ lifecycle = <<>>

\* ---------------------------------------------- collaboration, both variants
Next ==
    \/ \E args \in CallArgs : CollabCall(args[1], args[2], args[3], args[4])
    \/ \E outcome \in Outcomes : CollabTurnDone(outcome)
    \/ GenCreate
    \/ GenNext
    \/ GenTurnDone

Spec == Init /\ [][Next]_vars

\* ------------------------------------ two collaborate_agents calls at once
MaxConcurrentRounds == 1

\* The requests of two clients: each its own task, both naming agent a1.
ConcurrentTasks == <<"T1", "T2">>
ConcurrentArgs ==
    {<<"a1">>, <<"a1", "a2">>, <<"a2", "a1">>} \X {NoId, "a2"} \X (0..MaxConcurrentRounds)

\* Call i of collaborate_agents from its start to its first await (or to its
\* return), while the other call is wherever it is.
ConcurrentCall(i, agent_ids, coordinator_arg, max_rounds) ==
    /\ calls[i].pc = "idle"
    /\ LET c0 == Started(agent_ids, coordinator_arg, max_rounds, ConcurrentTasks[i])
           env0 == EnterCollaboration(environment_context, agents, agent_ids,
                                      c0.coordinator_id, ConcurrentTasks[i])
           c1 == EnterRound(c0, agent_metadata)
       IN  /\ calls' = [calls EXCEPT ![i] = Finalize(c1)]
           /\ environment_context' = FinalizeEnv(c1, env0, agents)
    /\ UNCHANGED <<agents, agent_metadata, registryVars, runVars, executorVars, collabVars, genVars, streamVars,
                   memVars, oracle>>

\* send_message of call i returns or raises; the call runs to its next await.
ConcurrentTurnDone(i, outcome) ==
    /\ calls[i].pc = "await"
    /\ LET c1 == RecordTurn(calls[i], agent_metadata, outcome)
           c2 == AfterTurn(c1, agent_metadata)
       IN  /\ calls' = [calls EXCEPT ![i] = Finalize(c2)]
           /\ environment_context' = FinalizeEnv(c2, environment_context, agents)
    /\ UNCHANGED <<agents, agent_metadata, registryVars, runVars, executorVars, collabVars, genVars, streamVars,
                   memVars, oracle>>

ConcurrentNext ==
    \/ \E i \in 1..2, args \in ConcurrentArgs : ConcurrentCall(i, args[1], args[2], args[3])
    \/ \E i \in 1..2, outcome \in Outcomes : ConcurrentTurnDone(i, outcome)

ConcurrentSpec == Init /\ [][ConcurrentNext]_vars

\* ------------------------------------------------------------ history helpers
EventsOfKind(history, kind) == SelectSeq(history, LAMBDA ev : ev.kind = kind)
AgentEvents(history) == EventsOfKind(history, "agent")
RoundEvents(history) == EventsOfKind(history, "round")
Returned == collab.pc = "done"
NumAgents == Len(collab.agent_ids)

\* C1: a validated collaborate_agents call with max_rounds = N returns a
\* history with exactly one round summary for each round 1..N, in order, and
\* exactly one final event, whatever turns failed or completed.
C1_RoundSummaries ==
    Returned =>
        /\ Len(RoundEvents(collab.history)) = collab.max_rounds
        /\ \A r \in 1..collab.max_rounds : RoundEvents(collab.history)[r].round = r
        /\ Len(EventsOfKind(collab.history, "final")) = 1

\* Reached: two rounds were run although every agent completed in round 1,
\* and a turn of round 2 failed.
C1_Witness ==
    /\ Returned
    /\ collab.max_rounds = 2
    /\ \E i \in 1..Len(collab.history) :
          /\ collab.history[i].kind = "round"
          /\ collab.history[i].round = 1
          /\ collab.history[i].all_completed
    /\ \E i \in 1..Len(collab.history) :
          collab.history[i].error /\ collab.history[i].round = 2

\* C2: the returned history is start, then per round one agent event per entry
\* of agent_ids in order followed by that round's summary, then the final
\* event: 1 + N*(k+1) + 1 events.
C2_HistoryShape ==
    Returned =>
        LET k == NumAgents
            N == collab.max_rounds
            h == collab.history
        IN  /\ Len(h) = 1 + N * (k + 1) + 1
            /\ h[1].kind = "start"
            /\ \A r \in 1..N :
                  /\ \A i \in 1..k :
                        LET ev == h[1 + (r - 1) * (k + 1) + i]
                        IN  /\ ev.kind = "agent"
                            /\ ev.agent_id = collab.agent_ids[i]
                            /\ ev.round = r
                  /\ h[1 + r * (k + 1)].kind = "round"
                  /\ h[1 + r * (k + 1)].round = r
            /\ h[Len(h)].kind = "final"
            /\ h[Len(h)].total_rounds = N

\* Reached: two agents, two rounds, eight events.
C2_Witness ==
    /\ Returned
    /\ NumAgents = 2
    /\ collab.agent_ids[1] # collab.agent_ids[2]
    /\ collab.max_rounds = 2
    /\ Len(collab.history) = 8

\* C3: every finished turn has left exactly one agent event, tagged error and
\* not completed exactly when the turn raised; the call goes on to the next
\* turn, and fails only on a precondition violation, before any turn.
C3_TurnErrorsContained ==
    LET evs == AgentEvents(collab.history)
    IN  /\ Len(evs) = Len(oracle)
        /\ \A t \in 1..Len(evs) :
              /\ evs[t].error = (oracle[t] = "raise")
              /\ evs[t].completed = (oracle[t] = "ok")
        /\ oracle # <<>> => collab.pc \in {"await", "done"}
        /\ collab.pc = "await" => Len(oracle) < collab.max_rounds * NumAgents
        /\ Returned => Len(oracle) = collab.max_rounds * NumAgents
        /\ collab.pc = "raised" => collab.error # "none" /\ oracle = <<>>

\* Reached: the first turn raised and a later turn of a later round succeeded.
C3_Witness ==
    /\ Returned
    /\ Len(oracle) >= 3
    /\ oracle[1] = "raise"
    /\ oracle[Len(oracle)] = "ok"

\* C4: the call raises exactly when agent_ids is empty, an id is unregistered or
\* a given coordinator is unregistered, and then no event exists, no prompt
\* was sent and no environment context has changed.
C4_Preconditions ==
    collab.pc # "idle" =>
        LET bad == \/ collab.agent_ids = <<>>
                   \/ \E a \in Range(collab.agent_ids) : a \notin agents
                   \/ collab.coordinator_arg # NoId /\ collab.coordinator_arg \notin agents
        IN  /\ bad <=> collab.pc = "raised"
            /\ collab.pc = "raised" =>
                  /\ collab.history = <<>>
                  /\ sent = <<>>
                  /\ oracle = <<>>
                  /\ environment_context = InitialEnvironment

\* Reached: registered agents but an unregistered coordinator.
C4_Witness ==
    /\ collab.pc = "raised"
    /\ collab.agent_ids # <<>>
    /\ Range(collab.agent_ids) \subseteq agents
    /\ collab.coordinator_arg \notin agents \cup {NoId}

BothFinished == collab.pc \in {"done", "raised"} /\ gen.pc \in {"done", "raised"}

\* The list collaborate_agents returns, as its caller reads it.
ReturnedEvents == ViewAll(collab.history, collab.agent_task_status)

WithoutStatus(events) == MapSeq(events, LAMBDA ev : [ev EXCEPT !.agent_status = EmptyStatus])

\* C5: for the same arguments and the same turn outcomes the generator yields
\* the events collaborate_agents returns, and sends the same prompts.
C5_StreamEqualsBuffered ==
    BothFinished =>
        /\ gen.pc = "raised" <=> collab.pc = "raised"
        /\ gen.error = collab.error
        /\ observed = ReturnedEvents
        /\ gen_sent = sent

\* What does hold between the two variants: the same prompts, and the same
\* events up to the agent_status map of the round summaries.
StreamEqualsBufferedUpToStatus ==
    BothFinished =>
        /\ gen.pc = "raised" <=> collab.pc = "raised"
        /\ gen.error = collab.error
        /\ WithoutStatus(observed) = WithoutStatus(ReturnedEvents)
        /\ gen_sent = sent

\* C9: at most one turn of a collaborate_agents call is in flight, and a
\* prompt is sent only when every earlier turn has left its event in the
\* history.
C9_OneTurnInFlight ==
    /\ Cardinality(inflight) <= 1
    /\ Len(sent) = Len(AgentEvents(collab.history)) + Cardinality(inflight)
    /\ collab.pc = "await" <=> inflight # {}
    /\ collab.pc = "await" =>
          /\ inflight = {<<collab.round_num, collab.idx>>}
          /\ Len(sent) = collab.round_num * NumAgents + collab.idx + 1

\* Reached: the second agent of round 2 is in flight, after three finished turns.
C9_Witness ==
    /\ collab.pc = "await"
    /\ collab.round_num = 1
    /\ collab.idx = 1
    /\ Len(AgentEvents(collab.history)) = 3

\* ------------------------------------------- collaborate_stream (the endpoint)
DataItem(ev) == [type |-> "data", event |-> ev, error |-> "none"]
ErrorItem(error) == [type |-> "error", event |-> BlankEvent, error |-> error]
Sentinel == [type |-> "none", event |-> BlankEvent, error |-> "none"]

\* `async for message in collaborate_agents_stream(...): await queue.put(message)`:
\* the queue is unbounded, so put never suspends and the task runs on until the
\* generator awaits send_message or ends.
RECURSIVE Pump(_)
Pump(st) ==
    IF st.g.pc \in YieldPcs
    THEN CHOOSE end \in {Pump(next) : next \in
                {[g |-> GenStep(st.g, agent_metadata, agents),
                  env |-> GenStepEnv(st.g, st.env, agents),
                  put |-> Append(st.put, DataItem(st.g.out))]}} : TRUE
    ELSE st

\* The except and finally clauses of run_collaboration.
Epilogue(g) ==
    CASE g.pc = "raised" -> <<ErrorItem(g.error), Sentinel>>
      [] g.pc = "done"   -> <<Sentinel>>
      [] OTHER           -> <<>>

ProducerPc(g) == IF g.pc \in {"raised", "done"} THEN "finished" ELSE "running"

\* AfterDisconnect with the task cancelled.
AfterDisconnectCancels(task) == [task EXCEPT !.pc = "cancelled"]

\* What leaving event_generator does to the task it created.
AfterDisconnect(task) == task

\* Terminal with the loop left on the sentinel alone.
TerminalSentinelOnly(item) == item.type = "none"

\* Whether event_generator leaves its read loop after this queue item.
Terminal(item) == item.type = "none" \/ item.type = "error"

SseOf(item, status) ==
    CASE item.type = "none"  -> [type |-> "complete", data |-> BlankEvent, message |-> "none"]
      [] item.type = "error" -> [type |-> "error", data |-> BlankEvent, message |-> item.error]
      [] OTHER -> [type |-> "message", data |-> View(item.event, status), message |-> "none"]

\* The endpoint is called: event_generator creates the queue and the task and
\* suspends in queue.get().
StreamRequest(agent_ids, coordinator_arg, max_rounds, task) ==
    /\ consumer.pc = "none"
    /\ gen.pc = "idle"
    /\ consumer' = [pc |-> "reading"]
    /\ producer' = [pc |-> "scheduled"]
    /\ gen' = Created(agent_ids, coordinator_arg, max_rounds, task)
    /\ message_queue' = <<>>
    /\ UNCHANGED <<managerVars, registryVars, runVars, executorVars, environment_context, collabVars, observed, gen_sent,
                   oracle, sse, enqueued, memVars>>

Produce(g0) ==
    \E st \in {Pump([g |-> g0, env |-> environment_context, put |-> <<>>])} :
        /\ gen' = st.g
        /\ environment_context' = st.env
        /\ message_queue' = message_queue \o st.put \o Epilogue(st.g)
        /\ enqueued' = enqueued \o st.put \o Epilogue(st.g)
        /\ producer' = [producer EXCEPT !.pc = ProducerPc(st.g)]

\* The task starts: validation and everything up to the first send_message.
ProducerStart ==
    /\ producer.pc = "scheduled"
    /\ \E g0 \in {GenStep(gen, agent_metadata, agents)} : Produce(g0)
    /\ UNCHANGED <<managerVars, registryVars, runVars, executorVars, collabVars, observed, gen_sent, oracle, consumer, sse, memVars>>

\* send_message returns or raises in the task.
ProducerTurnDone(outcome) ==
    /\ producer.pc = "running"
    /\ gen.pc = "await"
    /\ \E g0 \in {GenRecordTurn(gen, agent_metadata, outcome)} : Produce(g0)
    /\ oracle' = Append(oracle, outcome)
    /\ UNCHANGED <<managerVars, registryVars, runVars, executorVars, collabVars, observed, gen_sent, consumer, sse, memVars>>

\* event_generator takes one item off the queue and yields its SSE line.
ConsumerGet ==
    /\ consumer.pc = "reading"
    /\ message_queue # <<>>
    /\ LET item == Head(message_queue)
       IN  /\ sse' = Append(sse, SseOf(item, gen.agent_task_status))
           /\ consumer' = [consumer EXCEPT !.pc = IF Terminal(item) THEN "joining" ELSE "reading"]
    /\ message_queue' = Tail(message_queue)
    /\ UNCHANGED <<managerVars, registryVars, runVars, executorVars, environment_context, collabVars, genVars, oracle,
                   producer, enqueued, memVars>>

\* `await task` after the loop.
ConsumerJoin ==
    /\ consumer.pc = "joining"
    /\ producer.pc = "finished"
    /\ consumer' = [consumer EXCEPT !.pc = "closed"]
    /\ UNCHANGED <<managerVars, registryVars, runVars, executorVars, environment_context, collabVars, genVars, oracle,
                   producer, message_queue, sse, enqueued, memVars>>

\* The client goes away while event_generator is suspended.
ClientDisconnect ==
    /\ consumer.pc = "reading"
    /\ consumer' = [consumer EXCEPT !.pc = "abandoned"]
    /\ producer' = AfterDisconnect(producer)
    /\ UNCHANGED <<managerVars, registryVars, runVars, executorVars, environment_context, collabVars, genVars, oracle,
                   message_queue, sse, enqueued, memVars>>

StreamNext ==
    \/ \E args \in CallArgs : StreamRequest(args[1], args[2], args[3], args[4])
    \/ ProducerStart
    \/ \E outcome \in Outcomes : ProducerTurnDone(outcome)
    \/ ConsumerGet
    \/ ConsumerJoin
    \/ ClientDisconnect

\* The event loop runs every ready coroutine, and every send_message is taken
\* to return or raise in the end.
StreamSpec ==
    /\ Init
    /\ [][StreamNext]_vars
    /\ WF_vars(ProducerStart)
    /\ WF_vars(\E outcome \in Outcomes : ProducerTurnDone(outcome))
    /\ WF_vars(ConsumerGet)
    /\ WF_vars(ConsumerJoin)

\* ------------------------------------------------------------- stream helpers
StreamedEvents == MapSeq(SelectSeq(enqueued, LAMBDA item : item.type = "data"),
                         LAMBDA item : item.event)
ErrorMarkerPut == \E i \in 1..Len(enqueued) : enqueued[i].type = "error"
TurnsOfRun == gen.max_rounds * Len(gen.agent_ids)
TerminalLines == {i \in 1..Len(sse) : sse[i].type \in {"complete", "error"}}

\* C6 as stated: in the streaming variant a failed turn is the last thing
\* produced, and the producer ends with an error marker right after it.
C6_AbortsOnFirstTurnError ==
    \A i \in 1..Len(enqueued) :
        (enqueued[i].type = "data" /\ enqueued[i].event.error) =>
            /\ producer.pc = "finished"
            /\ i < Len(enqueued)
            /\ enqueued[i + 1].type = "error"

\* C6 as the code has it: a failed turn of the streaming variant is produced
\* as one agent event tagged error and not completed, the producer goes on
\* with the next agent and the remaining rounds, and an error marker is put
\* only when the generator raised, which only validation makes it do, before
\* any event.
C6_StreamContinuesPastTurnErrors ==
    LET evs == AgentEvents(StreamedEvents)
    IN  /\ Len(evs) = Len(oracle)
        /\ \A t \in 1..Len(evs) :
              /\ evs[t].error = (oracle[t] = "raise")
              /\ evs[t].completed = (oracle[t] = "ok")
        /\ oracle # <<>> /\ producer.pc = "running" => Len(oracle) < TurnsOfRun
        /\ oracle # <<>> /\ producer.pc = "finished" =>
              /\ gen.pc = "done"
              /\ Len(oracle) = TurnsOfRun
              /\ Len(RoundEvents(StreamedEvents)) = gen.max_rounds
        /\ ErrorMarkerPut <=> gen.pc = "raised"
        /\ gen.pc = "raised" =>
              /\ Validate(agents, gen.agent_ids, gen.coordinator_arg) # "ok"
              /\ StreamedEvents = <<>>

\* Reached: the first turn of the stream raised, and the producer still ran
\* two rounds of two turns to the final event.
C6_Witness ==
    /\ producer.pc = "finished"
    /\ gen.pc = "done"
    /\ Len(oracle) = 4
    /\ oracle[1] = "raise"
    /\ oracle[4] = "ok"
    /\ Last(StreamedEvents).kind = "final"
    /\ ~ErrorMarkerPut

\* C7: the endpoint's stream is bounded, holds at most one terminal line, which
\* is its last, and a stream read to its end ends with `complete` when the
\* producer finished every round and with `error` when it raised.
C7_OneTerminalMarker ==
    /\ Cardinality(TerminalLines) <= 1
    /\ \A i \in TerminalLines : i = Len(sse)
    /\ Len(sse) <= 1 + gen.max_rounds * (Len(gen.agent_ids) + 1) + 2
    /\ consumer.pc \in {"joining", "closed"} <=> TerminalLines # {}
    /\ \A i \in TerminalLines :
          /\ sse[i].type = "complete" => gen.pc = "done" /\ Len(oracle) = TurnsOfRun
          /\ sse[i].type = "error" => gen.pc = "raised" /\ Len(sse) = 1
    /\ consumer.pc = "closed" =>
          Last(sse).type = IF gen.pc = "raised" THEN "error" ELSE "complete"

\* Reached: a stream read to its end, with failed turns in it, closed by
\* `complete` after every event of two rounds of two agents.
C7_Witness ==
    /\ consumer.pc = "closed"
    /\ Len(sse) = 9
    /\ Last(sse).type = "complete"
    /\ \E i \in 1..Len(sse) : sse[i].data.error

\* C8: once the client has stopped reading, the producer still runs every
\* remaining turn and round, finalizes and puts the sentinel.
C8_ProducerOutlivesReader ==
    (consumer.pc = "abandoned") ~>
        /\ producer.pc = "finished"
        /\ enqueued # <<>>
        /\ Last(enqueued) = Sentinel
        /\ Len(message_queue) = Len(enqueued) - Len(sse)
        /\ gen.pc \in {"done", "raised"}
        /\ gen.pc = "done" =>
              /\ Len(oracle) = TurnsOfRun
              /\ StreamedEvents[Len(StreamedEvents)].kind = "final"
              /\ \A a \in Range(gen.agent_ids) :
                    environment_context[a].in_collaboration = FALSE

\* Reached: the client left after the start event, and the producer went on
\* through four turns to the sentinel, all of it left unread on the queue.
C8_Witness ==
    /\ consumer.pc = "abandoned"
    /\ Len(sse) = 1
    /\ producer.pc = "finished"
    /\ gen.pc = "done"
    /\ Len(oracle) = 4
    /\ Len(message_queue) = 8
    /\ Last(message_queue) = Sentinel

\* ------------------------------------------------- AgentMemory, short-term part
\* DequeAppend of a deque that refuses the new item when full.
DequeAppendKeepsOldest(d, maxlen, item) ==
    IF Len(d) >= maxlen THEN d ELSE Append(d, item)

NoTimestamp == 0
CallerTimestamp == -1

\* collections.deque(maxlen = maxlen).append(item)
DequeAppend(d, maxlen, item) ==
    IF maxlen = 0 THEN d
    ELSE IF Len(d) >= maxlen THEN Append(Tail(d), item)
    ELSE Append(d, item)

\* The memory_item as add_to_short_term leaves it: the timestamp is filled in
\* when the caller gave none.
Stamped(memory_item, clock) ==
    IF memory_item.timestamp = NoTimestamp
    THEN [memory_item EXCEPT !.timestamp = clock]
    ELSE memory_item

\* The items callers pass: with a timestamp of their own, or with none.
MemoryItems == [role : {"user"}, content : Contents, timestamp : {NoTimestamp, CallerTimestamp}]

\* AgentMemory(agent_id, short_term_capacity = capacity)
MemoryCreate(capacity) ==
    /\ short_term_capacity = NotConstructed
    /\ short_term_capacity' = capacity
    /\ short_term_memory' = <<>>
    /\ UNCHANGED <<managerVars, registryVars, runVars, executorVars, environment_context, collabVars, genVars, oracle,
                   streamVars, inserted, now, recalled>>

AddToShortTerm(memory_item) ==
    /\ short_term_capacity # NotConstructed
    /\ now <= MaxInserts
    /\ short_term_memory' = DequeAppend(short_term_memory, short_term_capacity,
                                        Stamped(memory_item, now))
    /\ inserted' = Append(inserted, Stamped(memory_item, now))
    /\ now' = now + 1
    /\ recalled' = NoRecall
    /\ UNCHANGED <<managerVars, registryVars, runVars, executorVars, environment_context, collabVars, genVars, oracle,
                   streamVars, short_term_capacity>>

ClearShortTermMemory ==
    /\ short_term_capacity # NotConstructed
    /\ short_term_memory' = <<>>
    /\ inserted' = <<>>
    /\ recalled' = NoRecall
    /\ UNCHANGED <<managerVars, registryVars, runVars, executorVars, environment_context, collabVars, genVars, oracle,
                   streamVars, short_term_capacity, now>>

\* s[start:] of a Python list: a negative start counts from the end, and
\* both ends are clipped to the list.
PySliceFrom(s, start) ==
    LET n == Len(s)
        from == IF start < 0 THEN (IF n + start < 0 THEN 0 ELSE n + start)
                ELSE (IF start > n THEN n ELSE start)
    IN  SubSeq(s, from + 1, n)

\* The limits callers pass: none (the default None), or an integer >= 0.
Limits == [given : {FALSE}, limit : {0}] \cup [given : {TRUE}, limit : 0..(MaxCapacity + 1)]

\* get_short_term_memory(limit): list(d) when limit is None, else
\* list(d)[-limit:], where -limit is 0 for limit = 0.
GetShortTermMemory(arg) ==
    /\ short_term_capacity # NotConstructed
    /\ recalled' = [called |-> TRUE, given |-> arg.given, limit |-> arg.limit,
                    buffer |-> short_term_memory,
                    items |-> IF ~arg.given THEN short_term_memory
                              ELSE PySliceFrom(short_term_memory, 0 - arg.limit)]
    /\ UNCHANGED <<managerVars, registryVars, runVars, executorVars, environment_context, collabVars, genVars,
                   oracle, streamVars, short_term_capacity, short_term_memory,
                   inserted, now>>

MemoryNext ==
    \/ \E capacity \in 0..MaxCapacity : MemoryCreate(capacity)
    \/ \E memory_item \in MemoryItems : AddToShortTerm(memory_item)
    \/ ClearShortTermMemory
    \/ \E arg \in Limits : GetShortTermMemory(arg)

MemorySpec == Init /\ [][MemoryNext]_vars

Min(a, b) == IF a <= b THEN a ELSE b
LastN(s, n) == SubSeq(s, Len(s) - n + 1, Len(s))

\* C10: the short-term buffer never holds more than capacity items, and holds
\* exactly the last min(capacity, n) of the n items appended since it was last
\* emptied, in insertion order.
C10_ShortTermBuffer ==
    short_term_capacity # NotConstructed =>
        /\ Len(short_term_memory) <= short_term_capacity
        /\ short_term_memory = LastN(inserted, Min(short_term_capacity, Len(inserted)))

\* Reached: capacity 2 and four insertions, the two oldest evicted.
C10_Witness ==
    /\ short_term_capacity = 2
    /\ Len(inserted) = short_term_capacity + 2
    /\ inserted[1].content # inserted[3].content
    /\ short_term_memory = <<inserted[3], inserted[4]>>

\* ------------------------------------------------------- ToolResultCache
MaxTtl == 2
MaxCacheSize == 2
MaxClock == 4

\* Tool names, results and arguments. Arguments are dicts, written as the
\* sequence of their (key, value) items in the caller's order; Opaque is a
\* value json.dumps cannot serialise (a set, a bytes object).
CachedTools == {"text_summarize", "text_extract_keywords", "srv_echo"}
Results == {"R1", "R2"}
Opaque == "object"
KeyRank == [a |-> 1, b |-> 2]
Arguments == { << <<"a", "1">>, <<"b", "2">> >>,
               << <<"b", "2">>, <<"a", "1">> >>,
               << <<"a", Opaque>> >> }

\* Two dicts are equal when they hold the same items, whatever the order.
DictOf(arguments) == Range(arguments)
Serialisable(arguments) == \A i \in 1..Len(arguments) : arguments[i][2] # Opaque

\* json.dumps(arguments) without sort_keys: the items in the dict's own order.
JsonDumpsUnsorted(arguments) == arguments

\* json.dumps(arguments, sort_keys=True): the items in key order.
JsonDumps(arguments) ==
    LET items == Range(arguments)
        Before(x) == Cardinality({y \in items : KeyRank[y[1]] < KeyRank[x[1]]})
    IN  [i \in 1..Cardinality(items) |-> CHOOSE x \in items : Before(x) = i - 1]

\* _generate_cache_key: sha256 of "tool_name:args_str", taken as injective.
GenerateCacheKey(tool_name, arguments) == <<tool_name, JsonDumps(arguments)>>

\* datetime.isoformat() and datetime.fromisoformat(); UTC timestamps of one
\* format compare as strings the way the times compare.
IsoFormat(t) == <<"iso", t>>
FromIsoFormat(text) == text[2]
IsoLess(x, y) == x[2] < y[2]

HasKey(c, key) == \E i \in 1..Len(c) : c[i].key = key
IndexOf(c, key) == CHOOSE i \in 1..Len(c) : c[i].key = key
Remove(c, i) == SubSeq(c, 1, i - 1) \o SubSeq(c, i + 1, Len(c))

\* min(self.cache.keys(), key = timestamp) taking the newest entry instead.
OldestIndexNewest(c) ==
    CHOOSE i \in 1..Len(c) : \A j \in 1..Len(c) :
        \/ IsoLess(c[j].timestamp, c[i].timestamp)
        \/ (c[i].timestamp = c[j].timestamp /\ i <= j)

\* min(self.cache.keys(), key = timestamp): the first key in dict order among
\* those with the smallest timestamp.
OldestIndex(c) ==
    CHOOSE i \in 1..Len(c) : \A j \in 1..Len(c) :
        \/ IsoLess(c[i].timestamp, c[j].timestamp)
        \/ (c[i].timestamp = c[j].timestamp /\ i <= j)

\* ToolResultCache.get at time clock: the cache it leaves, what it returns,
\* whether it raised, the entries it deleted.
Get(c, ttl, clock, tool_name, arguments) ==
    IF ~Serialisable(arguments)
    THEN [cache |-> c, result |-> NoResult, raised |-> TRUE, removed |-> <<>>]
    ELSE LET key == GenerateCacheKey(tool_name, arguments)
         IN  IF ~HasKey(c, key)
             THEN [cache |-> c, result |-> NoResult, raised |-> FALSE, removed |-> <<>>]
             ELSE LET i == IndexOf(c, key)
                      entry == c[i]
                      cached_time == FromIsoFormat(entry.timestamp)
                  IN  IF clock - cached_time > ttl
                      THEN [cache |-> Remove(c, i), result |-> NoResult,
                            raised |-> FALSE, removed |-> <<entry>>]
                      ELSE [cache |-> c, result |-> entry.result,
                            raised |-> FALSE, removed |-> <<>>]

\* ToolResultCache.set that evicts only to make room for a key not yet cached.
SetEvictsForNewKeys(c, maxsize, clock, tool_name, arguments, result) ==
    IF ~Serialisable(arguments)
    THEN [cache |-> c, raised |-> TRUE, removed |-> <<>>]
    ELSE LET key == GenerateCacheKey(tool_name, arguments)
             entry == [key |-> key, timestamp |-> IsoFormat(clock), result |-> result]
             full == Len(c) >= maxsize /\ ~HasKey(c, key)
         IN  IF full /\ Len(c) = 0
             THEN [cache |-> c, raised |-> TRUE, removed |-> <<>>]
             ELSE LET oldest == IF full THEN OldestIndex(c) ELSE 0
                      kept == IF full THEN Remove(c, oldest) ELSE c
                  IN  [cache |-> IF HasKey(kept, key)
                                 THEN [kept EXCEPT ![IndexOf(kept, key)] = entry]
                                 ELSE Append(kept, entry),
                       raised |-> FALSE,
                       removed |-> IF full THEN <<c[oldest]>> ELSE <<>>]
\* ToolResultCache.set at time clock. min() of an empty cache raises
\* ValueError; the key is generated after the eviction.
Set(c, maxsize, clock, tool_name, arguments, result) ==
    IF Len(c) >= maxsize /\ Len(c) = 0
    THEN [cache |-> c, raised |-> TRUE, removed |-> <<>>]
    ELSE LET full == Len(c) >= maxsize
             oldest == IF full THEN OldestIndex(c) ELSE 0
             kept == IF full THEN Remove(c, oldest) ELSE c
             removed == IF full THEN <<c[oldest]>> ELSE <<>>
         IN  IF ~Serialisable(arguments)
             THEN [cache |-> kept, raised |-> TRUE, removed |-> removed]
             ELSE LET key == GenerateCacheKey(tool_name, arguments)
                      entry == [key |-> key, timestamp |-> IsoFormat(clock),
                                result |-> result]
                  IN  [cache |-> IF HasKey(kept, key)
                                 THEN [kept EXCEPT ![IndexOf(kept, key)] = entry]
                                 ELSE Append(kept, entry),
                       raised |-> FALSE, removed |-> removed]

\* ToolResultCache(ttl_seconds = ttl, max_size = size)
CacheCreate(ttl, size) ==
    /\ ttl_seconds = NotConstructed
    /\ ttl_seconds' = ttl
    /\ max_size' = size
    /\ cache' = <<>>
    /\ UNCHANGED <<managerVars, registryVars, runVars, environment_context, collabVars, genVars, oracle,
                   streamVars, memVars, ltmVars, toolVars, cogVars, cache_result>>

CacheGet(tool_name, arguments) ==
    /\ ttl_seconds # NotConstructed
    /\ \E got \in {Get(cache, ttl_seconds, now, tool_name, arguments)} :
          /\ cache' = got.cache
          /\ cache_result' = [op |-> "get", tool_name |-> tool_name,
                              arguments |-> arguments, result |-> got.result,
                              raised |-> got.raised, at |-> now,
                              removed |-> got.removed]
    /\ UNCHANGED <<managerVars, registryVars, runVars, environment_context, collabVars, genVars, oracle,
                   streamVars, memVars, ltmVars, toolVars, cogVars, ttl_seconds,
                   max_size>>

\* A set call reads the clock once; the next call reads a later value.
CacheSet(tool_name, arguments, result) ==
    /\ ttl_seconds # NotConstructed
    /\ now < MaxClock
    /\ \E put \in {Set(cache, max_size, now, tool_name, arguments, result)} :
          /\ cache' = put.cache
          /\ cache_result' = [op |-> "set", tool_name |-> tool_name,
                              arguments |-> arguments, result |-> result,
                              raised |-> put.raised, at |-> now,
                              removed |-> put.removed]
    /\ now' = now + 1
    /\ UNCHANGED <<managerVars, registryVars, runVars, environment_context, collabVars, genVars, oracle,
                   streamVars, ltmVars, toolVars, cogVars, ttl_seconds, max_size,
                   short_term_capacity, short_term_memory, inserted, recalled>>

\* Time passes between two calls.
Tick ==
    /\ now < MaxClock
    /\ now' = now + 1
    /\ UNCHANGED <<managerVars, registryVars, runVars, executorVars, environment_context, collabVars, genVars,
                   oracle, streamVars, short_term_capacity, short_term_memory,
                   inserted, recalled>>

CacheNext ==
    \/ \E ttl \in 1..MaxTtl, size \in 0..MaxCacheSize : CacheCreate(ttl, size)
    \/ \E tool_name \in CachedTools, arguments \in Arguments :
          CacheGet(tool_name, arguments)
    \/ \E tool_name \in CachedTools, arguments \in Arguments, result \in Results :
          CacheSet(tool_name, arguments, result)
    \/ Tick

CacheSpec == Init /\ [][CacheNext]_vars

\* ------------------------------------------------ AgentMemory, long-term part
MaxRows == 2
MaxSearches == 1

\* The memory under study is agent a1's; agent a2's memory writes to the same
\* database file. Importance is in tenths: 5 is 0.5.
ThisAgent == "a1"
NoType == ""
RowKinds == { [agent_id |-> "a1", memory_type |-> "task", importance |-> 8],
              [agent_id |-> "a1", memory_type |-> "task", importance |-> 5],
              [agent_id |-> "a1", memory_type |-> "knowledge", importance |-> 5],
              [agent_id |-> "a2", memory_type |-> "task", importance |-> 8] }
SearchArgs == [memory_type : {NoType, "task"}, limit : {-1, 0, 1, 2},
               min_importance : {0, 8}]

\* ORDER BY importance DESC, timestamp DESC: x may come before y.
MayPrecede(x, y) ==
    \/ x.importance > y.importance
    \/ x.importance = y.importance /\ ~IsoLess(x.timestamp, y.timestamp)

\* ORDER BY timestamp DESC alone.
OrdersByTime(rows) ==
    {order \in [1..Cardinality(rows) -> rows] :
        /\ \A i, j \in 1..Cardinality(rows) : i # j => order[i] # order[j]
        /\ \A i, j \in 1..Cardinality(rows) :
              i < j => ~IsoLess(order[i].timestamp, order[j].timestamp)}

\* The orders the database may return the rows in: rows that tie come in
\* an order SQL leaves open.
Orders(rows) ==
    {order \in [1..Cardinality(rows) -> rows] :
        /\ \A i, j \in 1..Cardinality(rows) : i # j => order[i] # order[j]
        /\ \A i, j \in 1..Cardinality(rows) : i < j => MayPrecede(order[i], order[j])}

\* LIMIT n of SQLite: a negative n is no limit.
SqlLimit(order, n) ==
    IF n < 0 \/ n >= Len(order) THEN order ELSE SubSeq(order, 1, n)

\* The WHERE clause of search_long_term_memory.
Qualifies(row, agent_id, memory_type, min_importance) ==
    /\ row.agent_id = agent_id
    /\ row.importance >= min_importance
    /\ memory_type # NoType => row.memory_type = memory_type

\* The dict search_long_term_memory builds of a row (content and metadata are
\* not modelled).
MemoryOf(row) ==
    [id |-> row.id, memory_type |-> row.memory_type, importance |-> row.importance,
     timestamp |-> row.timestamp, accessed_count |-> row.accessed_count]

\* The ids of the first returned row only.
MemoryIdsFirst(fetched) == IF fetched = <<>> THEN {} ELSE {fetched[1].id}

\* memory_ids: the ids the UPDATE names.
MemoryIds(fetched) == {fetched[i].id : i \in 1..Len(fetched)}

\* add_to_long_term of one agent's memory, elapsed clock units after the
\* last reading of the clock. id is the AUTOINCREMENT key.
AddToLongTerm(kind, elapsed) ==
    /\ Len(long_term_memory) < MaxRows
    /\ now' = now + elapsed
    /\ long_term_memory' = Append(long_term_memory,
          [id |-> Len(long_term_memory) + 1, agent_id |-> kind.agent_id,
           memory_type |-> kind.memory_type, importance |-> kind.importance,
           timestamp |-> IsoFormat(now + elapsed), accessed_count |-> 0,
           last_accessed |-> NoResult])
    /\ UNCHANGED <<managerVars, registryVars, runVars, environment_context, collabVars, genVars, oracle,
                   streamVars, cacheVars, toolVars, cogVars, search_result, task_history,
                   short_term_capacity, short_term_memory, inserted, recalled>>

\* search_long_term_memory(memory_type, limit, min_importance) of a1's
\* memory: the SELECT, then the UPDATE of the rows returned.
SearchLongTermMemory(args) ==
    /\ search_result.n < MaxSearches
    /\ LET rows == {long_term_memory[i] : i \in 1..Len(long_term_memory)}
           selected == {row \in rows : Qualifies(row, ThisAgent, args.memory_type,
                                                 args.min_importance)}
       IN  \E order \in Orders(selected) :
             \E fetched \in {SqlLimit(order, args.limit)} :
               /\ search_result' = [n |-> search_result.n + 1,
                                    memory_type |-> args.memory_type,
                                    limit |-> args.limit,
                                    min_importance |-> args.min_importance,
                                    memories |-> [i \in 1..Len(fetched) |->
                                                    MemoryOf(fetched[i])]]
               /\ long_term_memory' =
                     [i \in 1..Len(long_term_memory) |->
                        IF long_term_memory[i].id \in MemoryIds(fetched)
                        THEN [long_term_memory[i] EXCEPT
                                 !.accessed_count = @ + 1,
                                 !.last_accessed = IsoFormat(now)]
                        ELSE long_term_memory[i]]
    /\ UNCHANGED <<managerVars, registryVars, runVars, environment_context, collabVars, genVars, oracle,
                   streamVars, memVars, cacheVars, toolVars, cogVars, task_history>>

LongTermNext ==
    \/ \E kind \in RowKinds, elapsed \in {0, 1} : AddToLongTerm(kind, elapsed)
    \/ \E args \in SearchArgs : SearchLongTermMemory(args)

LongTermSpec == Init /\ [][LongTermNext]_vars

\* ------------------------------------------------ AgentMemory, task history
MaxTaskCalls == 3

\* status and result of update_task default to None.
Statuses == {"started", "completed", "failed"}
TaskResults == {"R1"}

\* save_task(task_id "t1", description, status) of one agent's memory. Every
\* call of this part reads the clock one unit after the call before it.
SaveTask(agent_id, status) ==
    /\ now <= MaxTaskCalls
    /\ now' = now + 1
    /\ task_history' = Append(task_history,
          [id |-> Len(task_history) + 1, agent_id |-> agent_id, task_id |-> "t1",
           result |-> NoResult, status |-> status, started_at |-> IsoFormat(now),
           completed_at |-> NoResult])
    /\ UNCHANGED <<managerVars, registryVars, runVars, environment_context, collabVars, genVars, oracle,
                   streamVars, cacheVars, toolVars, cogVars, long_term_memory,
                   search_result, short_term_capacity, short_term_memory, inserted,
                   recalled>>

\* The SET clause of update_task applied to one row.
UpdatedTask(row, status, result, clock) ==
    LET with_status == IF status # NoResult THEN [row EXCEPT !.status = status] ELSE row
        with_result == IF result # NoResult
                       THEN [with_status EXCEPT !.result = result]
                       ELSE with_status
    IN  IF status \in {"completed", "failed"}
        THEN [with_result EXCEPT !.completed_at = IsoFormat(clock)]
        ELSE with_result

\* update_task(task_id "t1", status, result) of a1's memory.
UpdateTask(status, result) ==
    /\ now <= MaxTaskCalls
    /\ now' = now + 1
    /\ task_history' =
          IF status = NoResult /\ result = NoResult
          THEN task_history
          ELSE [i \in 1..Len(task_history) |->
                  IF task_history[i].agent_id = ThisAgent /\ task_history[i].task_id = "t1"
                  THEN UpdatedTask(task_history[i], status, result, now)
                  ELSE task_history[i]]
    /\ UNCHANGED <<managerVars, registryVars, runVars, environment_context, collabVars, genVars, oracle,
                   streamVars, cacheVars, toolVars, cogVars, long_term_memory,
                   search_result, short_term_capacity, short_term_memory, inserted,
                   recalled>>

TaskNext ==
    \/ \E agent_id \in InitialAgents, status \in Statuses : SaveTask(agent_id, status)
    \/ \E status \in Statuses \cup {NoResult}, result \in TaskResults \cup {NoResult} :
          UpdateTask(status, result)

TaskSpec == Init /\ [][TaskNext]_vars

\* ------------------------------------------- LLMAgentExecutor.execute, tasks
MaxRuns == 2

\* message.task_id as the client gives it (a task may get several messages),
\* or None; f"task_{agent_id}_{uuid4()}" is new in every run.
ClientTaskId == "t1"
GeneratedTaskId(n) ==
    CASE n = 1 -> "g1" [] n = 2 -> "g2" [] n = 3 -> "g3" [] OTHER -> "g4"

\* update_task(task_id, status, result) on the table: every row of the agent
\* with that task_id.
TasksUpdated(history, task_id, status, result, clock) ==
    [i \in 1..Len(history) |->
        IF history[i].agent_id = ThisAgent /\ history[i].task_id = task_id
        THEN UpdatedTask(history[i], status, result, clock)
        ELSE history[i]]

\* The except branch of execute with the task left alone once it is completed.
FailedUnlessCompleted(history, task_id, clock) ==
    [i \in 1..Len(history) |->
        IF history[i].agent_id = ThisAgent /\ history[i].task_id = task_id
           /\ history[i].status # "completed"
        THEN UpdatedTask(history[i], "failed", "Error", clock)
        ELSE history[i]]

\* The except branch of execute (lines 308-315): update_task(task_id,
\* status="failed", result=f"Error: {e}").
Failed(history, task_id, clock) == TasksUpdated(history, task_id, "failed", "Error", clock)

\* The statuses the row saved by the run has had, in order.
Traced(statuses, r, row, history) ==
    IF row # 0 /\ (statuses = <<>> \/ Last(statuses) # history[row].status)
    THEN Append(statuses, history[row].status)
    ELSE statuses

\* What the run hands to event_queue.enqueue_event, and whether the call
\* returned.
Published(r, kind, outcome) ==
    Append(r.published, [kind |-> kind, ok |-> outcome = "ok"])

\* execute from its start to its first await whose outcome is open: a
\* message without text is answered at once; otherwise the task is saved as
\* started (save_task inserts a row, whatever rows there are) and the run
\* waits for the model's response. The cognitive calls, the tool discovery
\* and the short-term memory, which touch no task row, are left to their own
\* parts.
ExecuteStart(message_task_id, has_text) ==
    /\ run.pc \in {"idle", "done", "raised"}
    /\ run.n < MaxRuns
    /\ LET task_id == IF message_task_id # "None" THEN message_task_id
                      ELSE GeneratedTaskId(run.n + 1)
           row == [id |-> Len(task_history) + 1, agent_id |-> ThisAgent,
                   task_id |-> task_id, result |-> NoResult, status |-> "started",
                   started_at |-> IsoFormat(now), completed_at |-> NoResult]
       IN  IF has_text
           THEN /\ task_history' = Append(task_history, row)
                /\ run' = [pc |-> "generating", n |-> run.n + 1, task_id |-> task_id,
                           row |-> row.id, statuses |-> <<"started">>,
                           published |-> <<>>]
           ELSE /\ task_history' = task_history
                /\ run' = [pc |-> "publishing_no_text", n |-> run.n + 1,
                           task_id |-> task_id, row |-> 0, statuses |-> <<>>,
                           published |-> <<>>]
    /\ now' = now + 1
    /\ UNCHANGED <<managerVars, registryVars, environment_context, collabVars, genVars, oracle,
                   streamVars, cacheVars, toolVars, cogVars, long_term_memory,
                   search_result, short_term_capacity, short_term_memory, inserted,
                   recalled>>

\* _generate_google / _generate_openai returns or raises. On a response the
\* run stores the conversation in long-term memory, marks the task completed
\* and goes on to publish; on an exception it marks the task failed and goes
\* on to publish the error message.
GenerateDone(outcome) ==
    /\ run.pc = "generating"
    /\ LET history == IF outcome = "ok"
                      THEN TasksUpdated(task_history, run.task_id, "completed",
                                        "response", now)
                      ELSE Failed(task_history, run.task_id, now)
       IN  /\ task_history' = history
           /\ run' = [run EXCEPT
                        !.pc = IF outcome = "ok" THEN "publishing"
                               ELSE "publishing_error",
                        !.statuses = Traced(@, run, run.row, history)]
    /\ long_term_memory' =
          IF outcome = "ok"
          THEN Append(long_term_memory,
                  [id |-> Len(long_term_memory) + 1, agent_id |-> ThisAgent,
                   memory_type |-> "conversation", importance |-> 5,
                   timestamp |-> IsoFormat(now), accessed_count |-> 0,
                   last_accessed |-> NoResult])
          ELSE long_term_memory
    /\ now' = now + 1
    /\ UNCHANGED <<managerVars, registryVars, environment_context, collabVars, genVars, oracle,
                   streamVars, cacheVars, toolVars, cogVars, search_result,
                   short_term_capacity, short_term_memory, inserted, recalled>>

\* event_queue.enqueue_event returns or raises. An exception of the publish
\* of the response, or of the 'no text' answer, is caught by the except
\* branch of execute: the task is marked failed and the error message is
\* published; an exception of that last publish leaves execute.
PublishDone(outcome) ==
    /\ run.pc \in {"publishing", "publishing_no_text", "publishing_error"}
    /\ LET kind == CASE run.pc = "publishing" -> "response"
                     [] run.pc = "publishing_no_text" -> "no_text"
                     [] run.pc = "publishing_error" -> "error"
           caught == outcome = "raise" /\ run.pc # "publishing_error"
           history == IF caught THEN Failed(task_history, run.task_id, now)
                      ELSE task_history
       IN  /\ task_history' = history
           /\ run' = [run EXCEPT
                        !.pc = IF caught THEN "publishing_error"
                               ELSE IF outcome = "ok" THEN "done" ELSE "raised",
                        !.published = Published(run, kind, outcome),
                        !.statuses = Traced(@, run, run.row, history)]
    /\ now' = now + 1
    /\ UNCHANGED <<managerVars, registryVars, environment_context, collabVars, genVars, oracle,
                   streamVars, cacheVars, toolVars, cogVars, long_term_memory,
                   search_result, short_term_capacity, short_term_memory, inserted,
                   recalled>>

ExecuteNext ==
    \/ \E message_task_id \in {"None", ClientTaskId}, has_text \in BOOLEAN :
          ExecuteStart(message_task_id, has_text)
    \/ \E outcome \in Outcomes : GenerateDone(outcome)
    \/ \E outcome \in Outcomes : PublishDone(outcome)

ExecuteSpec == Init /\ [][ExecuteNext]_vars

\* ------------------------------------------- A2AAgentManager: the lifecycle
\* create_agent, update_agent, delete_agent, cleanup_all and send_message as
\* coroutines of one event loop: a step runs one of them from one await that
\* suspends to the next.  An executor's cleanup suspends (in close_all) only
\* when it has an mcp_client that is still in MCPManager.clients.
MaxLifecycleCalls == 3

ConfigName == "Eve"

\* str(uuid.uuid4()): an id no earlier call was given.
GeneratedAgentId(n) ==
    CASE n = 1 -> "u1" [] n = 2 -> "u2" [] n = 3 -> "u3" [] n = 4 -> "u4" [] OTHER -> "u5"

NewCall(op, agent_id, mcp_servers) ==
    [op |-> op, agent_id |-> agent_id, mcp_servers |-> mcp_servers, pc |-> "called",
     result |-> "None", seen |-> {}, size |-> 0]

Returns(call, result) == [call EXCEPT !.pc = "done", !.result = result]
Raises(call, error) == [call EXCEPT !.pc = "raised", !.result = error]

\* The five dictionaries of the manager.
Maps ==
    [agents |-> agents, agent_cards |-> agent_cards, request_handlers |-> request_handlers,
     task_stores |-> task_stores, agent_metadata |-> agent_metadata]

\* "Store everything": the five assignments of create_agent and update_agent.
Stored(m, agent_id, name) ==
    [agents |-> m.agents \cup {agent_id},
     agent_cards |-> m.agent_cards \cup {agent_id},
     request_handlers |-> m.request_handlers \cup {agent_id},
     task_stores |-> m.task_stores \cup {agent_id},
     agent_metadata |-> [a \in DOMAIN m.agent_metadata \cup {agent_id} |->
                            IF a = agent_id THEN name ELSE m.agent_metadata[a]]]

\* Removed with the metadata entry left behind.
RemovedKeepsMetadata(m, agent_id) ==
    [agents |-> m.agents \ {agent_id},
     agent_cards |-> m.agent_cards \ {agent_id},
     request_handlers |-> m.request_handlers \ {agent_id},
     task_stores |-> m.task_stores \ {agent_id},
     agent_metadata |-> m.agent_metadata]

\* "Remove from storage": the five del statements of delete_agent.
Removed(m, agent_id) ==
    [agents |-> m.agents \ {agent_id},
     agent_cards |-> m.agent_cards \ {agent_id},
     request_handlers |-> m.request_handlers \ {agent_id},
     task_stores |-> m.task_stores \ {agent_id},
     agent_metadata |-> [a \in DOMAIN m.agent_metadata \ {agent_id} |-> m.agent_metadata[a]]]

\* The five clear() calls of cleanup_all.
Cleared(m) ==
    [agents |-> {}, agent_cards |-> {}, request_handlers |-> {}, task_stores |-> {},
     agent_metadata |-> <<>>]

\* The manager's dictionaries, MCPManager.clients and what the registered
\* executors hold.
Registry ==
    [maps |-> Maps, clients |-> clients, mcp_client |-> executor_mcp_client,
     env |-> environment_context]

Without(f, a) == [b \in DOMAIN f \ {a} |-> f[b]]
With(f, a, v) == [b \in DOMAIN f \cup {a} |-> IF b = a THEN v ELSE f[b]]

Unregister(r, agent_id) ==
    [r EXCEPT !.maps = Removed(@, agent_id), !.mcp_client = Without(@, agent_id),
              !.env = Without(@, agent_id)]

\* A new executor under the id: its environment_context starts empty.
Register(r, agent_id, mcp_servers) ==
    [r EXCEPT !.maps = Stored(@, agent_id, ConfigName),
              !.mcp_client = With(@, agent_id, mcp_servers),
              !.env = With(@, agent_id, <<>>)]

\* LLMAgentExecutor.cleanup awaits close_all.
Suspends(r, agent_id) == r.mcp_client[agent_id] /\ agent_id \in r.clients

\* AfterCleanup with update_agent replacing the entries in place: nothing
\* is removed before the new executor is stored.
AfterCleanupInPlace(r, call) ==
    IF call.agent_id \notin r.maps.agents
    THEN <<r, Raises(call, "KeyError")>>
    ELSE IF call.op = "delete_agent"
    THEN <<Unregister(r, call.agent_id), Returns(call, "True")>>
    ELSE <<r, [call EXCEPT !.pc = "initialize"]>>

\* delete_agent after `await self.agents[agent_id].cleanup()`; update_agent
\* goes on to initialize_mcp and suspends in memory.initialize.
AfterCleanup(r, call) ==
    IF call.agent_id \notin r.maps.agents
    THEN <<r, Raises(call, "KeyError")>>
    ELSE <<Unregister(r, call.agent_id),
           IF call.op = "delete_agent" THEN Returns(call, "True")
           ELSE [call EXCEPT !.pc = "initialize"]>>

\* AfterCloseAll with the existence check made again after the await.
AfterCloseAllChecksAgain(r, call) ==
    IF call.agent_id \notin r.clients \/ call.agent_id \notin r.maps.agents
    THEN <<r, Returns(call, IF call.op = "delete_agent" THEN "False" ELSE "None")>>
    ELSE AfterCleanup([r EXCEPT !.clients = @ \ {call.agent_id}], call)

\* remove_client after `await self.clients[agent_id].close_all()`: its del,
\* then the rest of cleanup and of the caller.
AfterCloseAll(r, call) ==
    IF call.agent_id \notin r.clients
    THEN <<r, Raises(call, "KeyError")>>
    ELSE AfterCleanup([r EXCEPT !.clients = @ \ {call.agent_id}], call)

\* The for loop of cleanup_all from one iteration to the next cleanup that
\* suspends, or to the five clear() calls.  The dict iterator raises when the
\* size of self.agents has changed.
CleanupAllOutcomes(r, call) ==
    IF Cardinality(r.maps.agents) # call.size
    THEN {<<r, Raises(call, "RuntimeError")>>}
    ELSE LET candidates == {a \in r.maps.agents \ call.seen : Suspends(r, a)}
         IN  IF candidates = {}
             THEN {<<[r EXCEPT !.maps = Cleared(@), !.mcp_client = <<>>, !.env = <<>>],
                     Returns(call, "None")>>}
             ELSE {<<r, [call EXCEPT !.pc = "close_all", !.agent_id = a,
                                     !.seen = @ \cup {a}]>> : a \in candidates}

\* An update that stores a new executor puts its entry at the end of the
\* dict: a cleanup_all iterating it has not seen that entry.
Reinserted(running, agent_id) ==
    [j \in DOMAIN running |->
        IF running[j].op = "cleanup_all" /\ running[j].pc = "close_all"
        THEN [running[j] EXCEPT !.seen = @ \ {agent_id}]
        ELSE running[j]]

Install(r, running) ==
    /\ agents' = r.maps.agents
    /\ agent_cards' = r.maps.agent_cards
    /\ request_handlers' = r.maps.request_handlers
    /\ task_stores' = r.maps.task_stores
    /\ agent_metadata' = r.maps.agent_metadata
    /\ clients' = r.clients
    /\ executor_mcp_client' = r.mcp_client
    /\ environment_context' = r.env
    /\ lifecycle' = running
    /\ UNCHANGED <<calls, runVars, executorVars, collabVars, genVars, oracle, streamVars,
                   memVars>>

\* create_agent from its call to the await in memory.initialize.
CreateAgent(mcp_servers) ==
    /\ Len(lifecycle) < MaxLifecycleCalls
    /\ LET agent_id == GeneratedAgentId(Len(lifecycle) + 1)
           call == NewCall("create_agent", agent_id, mcp_servers)
       IN  Install(Registry, Append(lifecycle, [call EXCEPT !.pc = "initialize"]))

\* delete_agent from its call to its return or to the await in close_all.
DeleteAgent(agent_id) ==
    /\ Len(lifecycle) < MaxLifecycleCalls
    /\ LET call == NewCall("delete_agent", agent_id, FALSE)
       IN  IF agent_id \notin agents
           THEN Install(Registry, Append(lifecycle, Returns(call, "False")))
           ELSE IF Suspends(Registry, agent_id)
           THEN Install(Registry, Append(lifecycle, [call EXCEPT !.pc = "close_all"]))
           ELSE LET after == AfterCleanup(Registry, call)
                IN  Install(after[1], Append(lifecycle, after[2]))

\* update_agent from its call to its return None or to the first await that
\* suspends: close_all inside its delete_agent, or memory.initialize.
UpdateAgent(agent_id, mcp_servers) ==
    /\ Len(lifecycle) < MaxLifecycleCalls
    /\ LET call == NewCall("update_agent", agent_id, mcp_servers)
       IN  IF agent_id \notin agents
           THEN Install(Registry, Append(lifecycle, Returns(call, "None")))
           ELSE IF Suspends(Registry, agent_id)
           THEN Install(Registry, Append(lifecycle, [call EXCEPT !.pc = "close_all"]))
           ELSE LET after == AfterCleanup(Registry, call)
                IN  Install(after[1], Append(lifecycle, after[2]))

\* close_all returns or raises inside the cleanup of delete_agent or
\* update_agent: remove_client deletes its entry, then the caller goes on.
CloseAllDone(i, outcome) ==
    /\ i \in DOMAIN lifecycle
    /\ lifecycle[i].pc = "close_all"
    /\ lifecycle[i].op \in {"delete_agent", "update_agent"}
    /\ LET call == lifecycle[i]
       IN  IF outcome = "raise"
           THEN Install(Registry, [lifecycle EXCEPT ![i] = Raises(call, "Exception")])
           ELSE LET after == AfterCloseAll(Registry, call)
                IN  Install(after[1], [lifecycle EXCEPT ![i] = after[2]])

\* memory.initialize returns or raises inside initialize_mcp; with MCP
\* servers configured create_client follows and connect_server suspends.
InitializeDone(i, outcome) ==
    /\ i \in DOMAIN lifecycle
    /\ lifecycle[i].pc = "initialize"
    /\ LET call == lifecycle[i]
       IN  IF outcome = "raise"
           THEN Install(Registry, [lifecycle EXCEPT ![i] = Raises(call, "Exception")])
           ELSE IF call.mcp_servers
           THEN Install([Registry EXCEPT !.clients = @ \cup {call.agent_id}],
                        [lifecycle EXCEPT ![i].pc = "connect"])
           ELSE Install(Register(Registry, call.agent_id, FALSE),
                        [Reinserted(lifecycle, call.agent_id)
                            EXCEPT ![i] = Returns(call, "AgentResponse")])

\* connect_server and discover_tools are over (both swallow their errors):
\* the five assignments and the return.
ConnectDone(i) ==
    /\ i \in DOMAIN lifecycle
    /\ lifecycle[i].pc = "connect"
    /\ LET call == lifecycle[i]
       IN  Install(Register(Registry, call.agent_id, TRUE),
                   [Reinserted(lifecycle, call.agent_id)
                       EXCEPT ![i] = Returns(call, "AgentResponse")])

\* cleanup_all from its call to the first cleanup that suspends, or to its end.
CleanupAll ==
    /\ Len(lifecycle) < MaxLifecycleCalls
    /\ LET call == [NewCall("cleanup_all", NoId, FALSE) EXCEPT !.size = Cardinality(agents)]
       IN  \E after \in CleanupAllOutcomes(Registry, call) :
               Install(after[1], Append(lifecycle, after[2]))

\* close_all returns or raises inside a cleanup of cleanup_all.
CleanupAllResumed(i, outcome) ==
    /\ i \in DOMAIN lifecycle
    /\ lifecycle[i].pc = "close_all"
    /\ lifecycle[i].op = "cleanup_all"
    /\ LET call == lifecycle[i]
       IN  IF outcome = "raise"
           THEN Install(Registry, [lifecycle EXCEPT ![i] = Raises(call, "Exception")])
           ELSE IF call.agent_id \notin clients
           THEN Install(Registry, [lifecycle EXCEPT ![i] = Raises(call, "KeyError")])
           ELSE \E after \in CleanupAllOutcomes(
                                 [Registry EXCEPT !.clients = @ \ {call.agent_id}], call) :
                    Install(after[1], [lifecycle EXCEPT ![i] = after[2]])

\* send_message from its call to the raise of "not found" or to the await
\* of handler.on_message_send.
SendMessage(agent_id) ==
    /\ Len(lifecycle) < MaxLifecycleCalls
    /\ LET call == NewCall("send_message", agent_id, FALSE)
       IN  IF agent_id \notin request_handlers
           THEN Install(Registry, Append(lifecycle, Raises(call, "ValueError")))
           ELSE Install(Registry, Append(lifecycle, [call EXCEPT !.pc = "on_message_send"]))

\* handler.on_message_send returns or raises.
MessageSendDone(i, outcome) ==
    /\ i \in DOMAIN lifecycle
    /\ lifecycle[i].pc = "on_message_send"
    /\ LET call == lifecycle[i]
       IN  Install(Registry, [lifecycle EXCEPT ![i] =
                IF outcome = "ok" THEN Returns(call, "Message")
                ELSE Raises(call, "Exception")])

\* The ids clients name: a1 (MCP servers configured) and a2 (none).
LifecycleIds == InitialAgents

LifecycleNext ==
    \/ CreateAgent(FALSE)
    \/ \E agent_id \in LifecycleIds : DeleteAgent(agent_id)
    \/ \E agent_id \in LifecycleIds, mcp_servers \in BOOLEAN : UpdateAgent(agent_id, mcp_servers)
    \/ \E i \in 1..MaxLifecycleCalls, outcome \in Outcomes : CloseAllDone(i, outcome)
    \/ \E i \in 1..MaxLifecycleCalls, outcome \in Outcomes : InitializeDone(i, outcome)
    \/ \E i \in 1..MaxLifecycleCalls : ConnectDone(i)
    \/ CleanupAll
    \/ \E i \in 1..MaxLifecycleCalls, outcome \in Outcomes : CleanupAllResumed(i, outcome)

LifecycleSpec == Init /\ [][LifecycleNext]_vars

\* ------------------------- messages and collaborations while agents change
\* send_message raises "not found" before any await when the agent has no
\* request handler; collaborate_agents records the error turn and goes on
\* to the next turn in the same step.
RECURSIVE SendOrFail(_, _, _)
SendOrFail(st, metadata, handlers) ==
    IF st.c.pc = "await" /\ CurrentAgent(st.c) \notin handlers
    THEN SendOrFail([c |-> AfterTurn(RecordTurn(st.c, metadata, "raise"), metadata),
                     sent |-> st.sent \o SentBy(st.c)],
                    metadata, handlers)
    ELSE [c |-> st.c, sent |-> st.sent \o SentBy(st.c)]

\* collaborate_agents from its call to its first await that suspends.
LiveCollabCall(agent_ids, coordinator_arg, max_rounds, task) ==
    /\ collab.pc = "idle"
    /\ LET verdict == Validate(agents, agent_ids, coordinator_arg)
       IN  IF verdict # "ok"
           THEN /\ collab' = Rejected(agent_ids, coordinator_arg, max_rounds, task, verdict)
                /\ UNCHANGED <<environment_context, sent, inflight>>
           ELSE LET c0 == Started(agent_ids, coordinator_arg, max_rounds, task)
                    env0 == EnterCollaboration(environment_context, agents, agent_ids,
                                               c0.coordinator_id, task)
                    st == SendOrFail([c |-> EnterRound(c0, agent_metadata), sent |-> sent],
                                     agent_metadata, request_handlers)
                IN  /\ collab' = Finalize(st.c)
                    /\ environment_context' = FinalizeEnv(st.c, env0, agents)
                    /\ sent' = st.sent
                    /\ inflight' = inflight \cup Dispatched(st.c)
    /\ UNCHANGED <<managerVars, registryVars, runVars, executorVars, genVars, streamVars,
                   memVars, oracle>>

\* A send_message that suspended returns or raises; collaborate_agents runs
\* to its next await that suspends.
LiveCollabTurnDone(outcome) ==
    /\ collab.pc = "await"
    /\ LET c1 == RecordTurn(collab, agent_metadata, outcome)
           st == SendOrFail([c |-> AfterTurn(c1, agent_metadata), sent |-> sent],
                            agent_metadata, request_handlers)
       IN  /\ collab' = Finalize(st.c)
           /\ environment_context' = FinalizeEnv(st.c, environment_context, agents)
           /\ sent' = st.sent
           /\ inflight' = (inflight \ {<<collab.round_num, collab.idx>>}) \cup Dispatched(st.c)
    /\ oracle' = Append(oracle, outcome)
    /\ UNCHANGED <<managerVars, registryVars, runVars, executorVars, genVars, streamVars,
                   memVars>>

\* One collaboration of a2 and a1, a2 first, of one round.
RoutingArgs == {<<"a2", "a1">>} \X {NoId} \X {1} \X Tasks
MaxRoutingCalls == 2

RoutingNext ==
    \/ \E agent_id \in LifecycleIds, mcp_servers \in BOOLEAN :
          Len(lifecycle) < MaxRoutingCalls /\ UpdateAgent(agent_id, mcp_servers)
    \/ \E i \in 1..MaxLifecycleCalls, outcome \in Outcomes : CloseAllDone(i, outcome)
    \/ \E i \in 1..MaxLifecycleCalls, outcome \in Outcomes : InitializeDone(i, outcome)
    \/ \E i \in 1..MaxLifecycleCalls : ConnectDone(i)
    \/ \E agent_id \in LifecycleIds :
          Len(lifecycle) < MaxRoutingCalls /\ SendMessage(agent_id)
    \/ \E i \in 1..MaxLifecycleCalls, outcome \in Outcomes : MessageSendDone(i, outcome)
    \/ \E args \in RoutingArgs : LiveCollabCall(args[1], args[2], args[3], args[4])
    \/ \E outcome \in Outcomes : LiveCollabTurnDone(outcome)

RoutingSpec == Init /\ [][RoutingNext]_vars
\* --------------------------------------------------- EnhancedToolManager
MaxCalls == 2

\* The registry: the built-in tools and the tools discover_tools registers.
\* "missing" is never registered.
BuiltinTools == {"text_summarize", "text_extract_keywords"}
ToolNames == {"text_summarize", "srv_echo", "missing"}

\* What list_tools may name, as (server_name, tool name): a tool of a server,
\* a tool of a server whose name has an underscore, and a tool whose
\* registered name is a built-in's.
ListedTools == {<<"srv", "echo">>, <<"my_srv", "echo">>, <<"text", "summarize">>}

\* f"{server_name}_{tool['name']}"
ToolNameOf(listed) ==
    CASE listed = <<"srv", "echo">> -> "srv_echo"
      [] listed = <<"my_srv", "echo">> -> "my_srv_echo"
      [] listed = <<"text", "summarize">> -> "text_summarize"

\* The answers of mcp_client.list_tools(): a listing, or an exception.
ListingFailed == [raised |-> TRUE, tools |-> {}]
Listing(listed) == [raised |-> FALSE, tools |-> listed]
Listings == {Listing(listed) : listed \in SUBSET ListedTools}
\* The calls made: every tool with serialisable arguments, cached or not, and
\* every tool with arguments json.dumps rejects, cached (uncached, such
\* arguments only reach the tool, whose answer is an outcome as any other).
ToolCalls ==
    (ToolNames \X {<< <<"a", "1">>, <<"b", "2">> >>} \X BOOLEAN)
        \cup (ToolNames \X {<< <<"a", Opaque>> >>} \X {TRUE})

\* tool_name.split('_', 1)
SplitName == [text_summarize |-> <<"text", "summarize">>,
              text_extract_keywords |-> <<"text", "extract_keywords">>,
              srv_echo |-> <<"srv", "echo">>,
              my_srv_echo |-> <<"my", "srv_echo">>,
              missing |-> <<"missing">>]

\* What a tool does when it is invoked: it returns a result (an external tool
\* may return None) or raises.
Raise == "raise"
NotInvoked == "not_invoked"
HandlerOutcomes(is_builtin) ==
    IF is_builtin THEN {"R1", Raise} ELSE {"R1", NoResult, Raise}

\* The statistics of a tool never used (the defaultdict's default).
\* avg_duration is kept as duration_sum, the sum of the durations: the
\* running average the code computes is duration_sum / total_calls. The
\* wall-clock stamps (timestamp, last_used) are left out.
DefaultStatistics == [total_calls |-> 0, successful_calls |-> 0, failed_calls |-> 0,
                      duration_sum |-> 0]
StatisticsOf(statistics, tool_name) ==
    IF tool_name \in DOMAIN statistics THEN statistics[tool_name] ELSE DefaultStatistics

\* record_execution that counts a failed execution as a call only.
RecordExecutionForgetsFailures(history, statistics, tool_name, arguments, result, success, duration, error) ==
    LET execution_record == [tool_name |-> tool_name,
                             arguments |-> arguments, result |-> result,
                             success |-> success, duration |-> duration,
                             error |-> error]
        stats == StatisticsOf(statistics, tool_name)
        updated == [total_calls |-> stats.total_calls + 1,
                    successful_calls |-> stats.successful_calls + (IF success THEN 1 ELSE 0),
                    failed_calls |-> stats.failed_calls,
                    duration_sum |-> stats.duration_sum + duration]
    IN  [execution_history |-> Append(history, execution_record),
         tool_statistics |-> [name \in DOMAIN statistics \cup {tool_name} |->
                                 IF name = tool_name THEN updated ELSE statistics[name]]]

\* ToolExecutionTracker.record_execution: the history and the statistics it
\* leaves.
RecordExecution(history, statistics, tool_name, arguments, result, success, duration, error) ==
    LET execution_record == [tool_name |-> tool_name,
                             arguments |-> arguments, result |-> result,
                             success |-> success, duration |-> duration,
                             error |-> error]
        stats == StatisticsOf(statistics, tool_name)
        updated == [total_calls |-> stats.total_calls + 1,
                    successful_calls |-> stats.successful_calls + (IF success THEN 1 ELSE 0),
                    failed_calls |-> stats.failed_calls + (IF success THEN 0 ELSE 1),
                    duration_sum |-> stats.duration_sum + duration]
    IN  [execution_history |-> Append(history, execution_record),
         tool_statistics |-> [name \in DOMAIN statistics \cup {tool_name} |->
                                 IF name = tool_name THEN updated ELSE statistics[name]]]

\* What execute_tool hands back: a tuple (success, result, error_message), or
\* an exception that leaves the coroutine.
Returned3(call, outcome, success, result, error) ==
    [called |-> TRUE, tool_name |-> call.tool_name, arguments |-> call.arguments,
     use_cache |-> call.use_cache, outcome |-> outcome, raised |-> FALSE,
     success |-> success, result |-> result, error |-> error]
Propagated(call) ==
    [called |-> TRUE, tool_name |-> call.tool_name, arguments |-> call.arguments,
     use_cache |-> call.use_cache, outcome |-> NotInvoked, raised |-> TRUE,
     success |-> FALSE, result |-> NoResult, error |-> NoResult]

\* EnhancedToolManager(agent_id, mcp_client): the cache is
\* ToolResultCache(ttl_seconds=300, max_size=100), scaled down to
\* ToolResultCache(ttl_seconds=MaxTtl, max_size=MaxCacheSize).
ManagerCreate(client) ==
    /\ tools = NoTools
    /\ ttl_seconds = NotConstructed
    /\ mcp_client' = client
    /\ tools' = [name \in BuiltinTools |-> TRUE]
    /\ ttl_seconds' = MaxTtl
    /\ max_size' = MaxCacheSize
    /\ cache' = <<>>
    /\ execution_history' = <<>>
    /\ tool_statistics' = NoStatistics
    /\ UNCHANGED <<managerVars, registryVars, runVars, environment_context, collabVars, genVars, oracle,
                   streamVars, memVars, ltmVars, cogVars, cache_result, pending_call,
                   tool_return, invocations, discover_return>>

\* discover_tools with the registry as it is told to leave it: every listed
\* tool is dropped instead of registered.
RegisteredOnly(registry, listing) == registry

\* The registry after the loop of discover_tools over a listing.
Registered(registry, listing) ==
    LET names == {ToolNameOf(listed) : listed \in listing}
    IN  [name \in DOMAIN registry \cup names |->
            IF name \in names THEN FALSE ELSE registry[name]]

\* discover_tools: without a client the registry is returned as it is; an
\* exception of list_tools is logged and the registry returned as it is;
\* otherwise every listed tool is written into the registry.
DiscoverTools(answer) ==
    /\ tools # NoTools
    /\ LET failed == mcp_client /\ answer.raised
           listing == IF mcp_client /\ ~answer.raised THEN answer.tools ELSE {}
           registry == Registered(tools, listing)
       IN  /\ tools' = registry
           /\ discover_return' = [called |-> TRUE, failed |-> failed,
                                   listed |-> listing, names |-> DOMAIN registry]
    /\ UNCHANGED <<managerVars, registryVars, runVars, environment_context, collabVars, genVars, oracle,
                   streamVars, memVars, ltmVars, cogVars, cacheVars, mcp_client,
                   execution_history, tool_statistics, pending_call, tool_return,
                   invocations>>

\* execute_tool from the tool's answer on (lines 450-483): cache the result,
\* record the execution, return; an exception of the tool or of cache.set is
\* recorded as a failure.
Complete(c, call, outcome) ==
    LET duration == now - call.start_time
        put == Set(c, max_size, now, call.tool_name, call.arguments, outcome)
        failed == outcome = Raise \/ (call.use_cache /\ put.raised)
        recorded == RecordExecution(execution_history, tool_statistics, call.tool_name,
                                    call.arguments,
                                    IF failed THEN NoResult ELSE outcome,
                                    ~failed, duration,
                                    IF failed THEN "exception" ELSE NoResult)
    IN  /\ cache' = IF outcome # Raise /\ call.use_cache THEN put.cache ELSE c
        /\ execution_history' = recorded.execution_history
        /\ tool_statistics' = recorded.tool_statistics
        /\ tool_return' = IF failed
                          THEN Returned3(call, outcome, FALSE, NoResult, "exception")
                          ELSE Returned3(call, outcome, TRUE, outcome, NoResult)

\* execute_tool up to its return or up to the await of the external call.
ExecuteTool(tool_name, arguments, use_cache, outcome) ==
    /\ tools # NoTools
    /\ Len(execution_history) < MaxCalls
    /\ LET call == [pc |-> "awaiting", tool_name |-> tool_name, arguments |-> arguments,
                    use_cache |-> use_cache, start_time |-> now]
           got == IF use_cache THEN Get(cache, ttl_seconds, now, tool_name, arguments)
                  ELSE [cache |-> cache, result |-> NoResult, raised |-> FALSE,
                        removed |-> <<>>]
           hit == RecordExecution(execution_history, tool_statistics, tool_name,
                                  arguments, got.result, TRUE, 0, NoResult)
       IN  IF got.raised
           THEN /\ tool_return' = Propagated(call)
                /\ UNCHANGED <<cache, execution_history, tool_statistics, pending_call,
                               invocations>>
           ELSE IF got.result # NoResult
           THEN /\ tool_return' = Returned3(call, NotInvoked, TRUE, got.result, NoResult)
                /\ cache' = got.cache
                /\ execution_history' = hit.execution_history
                /\ tool_statistics' = hit.tool_statistics
                /\ UNCHANGED <<pending_call, invocations>>
           ELSE IF tool_name \notin DOMAIN tools
           THEN /\ tool_return' = Returned3(call, NotInvoked, FALSE, NoResult, "not found")
                /\ cache' = got.cache
                /\ UNCHANGED <<execution_history, tool_statistics, pending_call,
                               invocations>>
           ELSE IF tools[tool_name]
           THEN /\ outcome \in HandlerOutcomes(TRUE)
                /\ invocations' = Append(invocations,
                      [tool_name |-> tool_name, server_name |-> NoResult,
                       actual_tool_name |-> NoResult, arguments |-> arguments])
                /\ Complete(got.cache, call, outcome)
                /\ UNCHANGED pending_call
           ELSE IF ~mcp_client
           THEN /\ tool_return' = Returned3(call, NotInvoked, FALSE, NoResult,
                                            "MCP client not available")
                /\ cache' = got.cache
                /\ UNCHANGED <<execution_history, tool_statistics, pending_call,
                               invocations>>
           ELSE IF Len(SplitName[tool_name]) # 2
           THEN /\ tool_return' = Returned3(call, NotInvoked, FALSE, NoResult,
                                            "Invalid tool name format")
                /\ cache' = got.cache
                /\ UNCHANGED <<execution_history, tool_statistics, pending_call,
                               invocations>>
           ELSE /\ pending_call = NoCall
                /\ pending_call' = call
                /\ invocations' = Append(invocations,
                      [tool_name |-> tool_name, server_name |-> SplitName[tool_name][1],
                       actual_tool_name |-> SplitName[tool_name][2],
                       arguments |-> arguments])
                /\ cache' = got.cache
                /\ UNCHANGED <<execution_history, tool_statistics, tool_return>>
    /\ UNCHANGED <<managerVars, registryVars, runVars, environment_context, collabVars, genVars, oracle,
                   streamVars, memVars, ltmVars, cogVars, ttl_seconds, max_size,
                   cache_result, tools, mcp_client, discover_return>>

\* The external call of the pending execute_tool returns or raises.
ToolCallDone(outcome) ==
    /\ pending_call # NoCall
    /\ pending_call' = NoCall
    /\ Complete(cache, pending_call, outcome)
    /\ UNCHANGED <<managerVars, registryVars, runVars, environment_context, collabVars, genVars, oracle,
                   streamVars, memVars, ltmVars, cogVars, ttl_seconds, max_size,
                   cache_result, tools, mcp_client, invocations, discover_return>>

ToolNext ==
    \/ \E client \in BOOLEAN : ManagerCreate(client)
    \/ DiscoverTools(Listing({<<"srv", "echo">>}))
    \/ \E call \in ToolCalls, outcome \in HandlerOutcomes(TRUE) :
          ExecuteTool(call[1], call[2], call[3], outcome)
    \/ \E outcome \in HandlerOutcomes(FALSE) : ToolCallDone(outcome)
    \/ Tick

ToolSpec == Init /\ [][ToolNext]_vars

\* Discovery, and the execution of what it registered.
DiscoveredCalls == {"srv_echo", "my_srv_echo", "text_summarize"}
DiscoverNext ==
    \/ \E client \in BOOLEAN : ManagerCreate(client)
    \/ \E answer \in Listings \cup {ListingFailed} : DiscoverTools(answer)
    \/ \E tool_name \in DiscoveredCalls, outcome \in HandlerOutcomes(TRUE) :
          ExecuteTool(tool_name, << <<"a", "1">>, <<"b", "2">> >>, FALSE, outcome)
    \/ \E outcome \in HandlerOutcomes(FALSE) : ToolCallDone(outcome)

DiscoverSpec == Init /\ [][DiscoverNext]_vars

\* ----------------------------------------------------- CognitiveProcessor
MaxDecisions == 2

\* A text is the set of the words written in it; a message also has its
\* length in characters. Lower is str.lower() on a word, and KeywordsIn gives
\* the keywords of the code that are substrings of a lowercase word.
Lower(word) ==
    CASE word = "Tool" -> "tool"
      [] word = "Analyze" -> "analyze"
      [] word = "Unclear" -> "unclear"
      [] OTHER -> word
KeywordsIn(lowered) ==
    CASE lowered = "tool" -> {"tool"}
      [] lowered = "planning" -> {"plan"}
      [] lowered = "clarify" -> {"clarify"}
      [] lowered = "unclear" -> {"unclear"}
      [] lowered = "delegate" -> {"delegate"}
      [] lowered = "analyze" -> {"analyze"}
      [] lowered = "tools" -> {"tool"}
      [] lowered = "create" -> {"create"}
      [] lowered = "what" -> {"what"}
      [] OTHER -> {}
WordLength(word) ==
    CASE word = "hi" -> 2
      [] word = "Analyze" -> 7
      [] word = "planning" -> 8
      [] word = "create" -> 6
      [] word = "what" -> 4
      [] OTHER -> 8

\* keyword in text.lower()
Mentions(text, keyword) == \E word \in text : keyword \in KeywordsIn(Lower(word))

\* The messages perceive_environment is given: no message is shorter than
\* the words in it.
MessageLengths == {2, 200, 201, 500, 501, 600}
MessageTexts == {{"hi"}, {"Analyze"}, {"planning"}, {"Analyze", "planning"}}
Messages ==
    {m \in [length : MessageLengths, text : MessageTexts] :
        \A word \in m.text : WordLength(word) <= m.length}
\* context: None, or a list of that many messages.
NoContextList == -1
Contexts == {NoContextList, 0, 5, 6}

complex_keywords ==
    {"analyze", "design", "architect", "plan", "multiple", "complex", "integrate"}

\* _assess_complexity with one point for every keyword found.
AssessComplexityEachKeyword(message, context) ==
    LET complexity_score ==
            (IF message.length > 500 THEN 2 ELSE IF message.length > 200 THEN 1 ELSE 0)
          + (IF context # NoContextList /\ context > 5 THEN 1 ELSE 0)
          + Cardinality({k \in complex_keywords : Mentions(message.text, k)})
    IN  IF complexity_score >= 3 THEN "high"
        ELSE IF complexity_score >= 1 THEN "medium" ELSE "low"

\* _assess_complexity(message, context)
AssessComplexity(message, context) ==
    LET complexity_score ==
            (IF message.length > 500 THEN 2 ELSE IF message.length > 200 THEN 1 ELSE 0)
          + (IF context # NoContextList /\ context > 5 THEN 1 ELSE 0)
          + (IF \E k \in complex_keywords : Mentions(message.text, k) THEN 1 ELSE 0)
    IN  IF complexity_score >= 3 THEN "high"
        ELSE IF complexity_score >= 1 THEN "medium" ELSE "low"

\* _identify_intent(message): the first list with a word in the message.
IdentifyIntent(message) ==
    IF \E k \in {"what", "how", "why", "when", "where", "?"} : Mentions(message.text, k)
    THEN "question"
    ELSE IF \E k \in {"create", "build", "make", "generate", "write"} :
                Mentions(message.text, k)
    THEN "creation"
    ELSE IF \E k \in {"analyze", "review", "check", "evaluate"} : Mentions(message.text, k)
    THEN "analysis"
    ELSE IF \E k \in {"fix", "solve", "debug", "resolve"} : Mentions(message.text, k)
    THEN "problem_solving"
    ELSE IF \E k \in {"explain", "describe", "tell me about"} : Mentions(message.text, k)
    THEN "explanation"
    ELSE "general"

\* _assess_urgency(message)
AssessUrgency(message) ==
    IF \E k \in {"urgent", "asap", "immediately", "critical", "emergency"} :
          Mentions(message.text, k)
    THEN "high"
    ELSE IF \E k \in {"soon", "when possible", "please"} : Mentions(message.text, k)
    THEN "medium"
    ELSE "low"

\* perceive_environment(message, context, available_tools,
\* collaboration_context); the last two are given or not.
Perceived(message, context, available_tools, collaboration_context) ==
    [perceived |-> TRUE, current_message |-> message.text,
     message_length |-> message.length,
     context_size |-> IF context = NoContextList THEN 0 ELSE context,
     has_tools |-> available_tools,
     in_collaboration |-> collaboration_context,
     complexity |-> AssessComplexity(message, context),
     intent |-> IdentifyIntent(message),
     urgency |-> AssessUrgency(message)]
PerceiveEnvironment(message, context, available_tools, collaboration_context) ==
    /\ perception_state' =
          Perceived(message, context, available_tools, collaboration_context)
    /\ UNCHANGED <<managerVars, registryVars, runVars, environment_context, collabVars, genVars, oracle,
                   streamVars, memVars, ltmVars, cacheVars, toolVars,
                   reasoning_chain, decision, current_plan, plan_update>>

PerceiveNext ==
    \E message \in Messages, context \in Contexts, available_tools \in BOOLEAN,
       collaboration_context \in BOOLEAN :
        PerceiveEnvironment(message, context, available_tools, collaboration_context)

PerceiveSpec == Init /\ [][PerceiveNext]_vars

\* The conclusions and perceptions decide is given. Confidence is in
\* hundredths: 80 is 0.8.
DecisionTypes == {"immediate", "planned", "tool_use", "delegate", "clarify"}
Conclusions ==
    SUBSET {"Tool", "planning", "Unclear", "delegate"} \cup {{"clarify"}}
Complexities == {"low", "medium", "high"}

\* decide with the planning branch tested first.
DecisionOfPlanFirst(approach, complexity, has_tools, in_collaboration) ==
    IF complexity = "high" \/ Mentions(approach, "plan")
    THEN [decision_type |-> "planned", action |-> "create_plan", confidence |-> 70]
    ELSE IF Mentions(approach, "tool") /\ has_tools
    THEN [decision_type |-> "tool_use", action |-> "use_tool", confidence |-> 80]
    ELSE IF Mentions(approach, "clarify") \/ Mentions(approach, "unclear")
    THEN [decision_type |-> "clarify", action |-> "ask_clarification", confidence |-> 60]
    ELSE IF in_collaboration /\ Mentions(approach, "delegate")
    THEN [decision_type |-> "delegate", action |-> "delegate_task", confidence |-> 75]
    ELSE [decision_type |-> "immediate", action |-> "respond_directly", confidence |-> 85]

\* The decision logic of decide (lines 198-231).
DecisionOf(approach, complexity, has_tools, in_collaboration) ==
    IF Mentions(approach, "tool") /\ has_tools
    THEN [decision_type |-> "tool_use", action |-> "use_tool", confidence |-> 80]
    ELSE IF complexity = "high" \/ Mentions(approach, "plan")
    THEN [decision_type |-> "planned", action |-> "create_plan", confidence |-> 70]
    ELSE IF Mentions(approach, "clarify") \/ Mentions(approach, "unclear")
    THEN [decision_type |-> "clarify", action |-> "ask_clarification", confidence |-> 60]
    ELSE IF in_collaboration /\ Mentions(approach, "delegate")
    THEN [decision_type |-> "delegate", action |-> "delegate_task", confidence |-> 75]
    ELSE [decision_type |-> "immediate", action |-> "respond_directly", confidence |-> 85]

\* decide(reasoning, perception), with reasoning["conclusion"] = approach and
\* the three perception keys it reads.
Decide(approach, complexity, has_tools, in_collaboration) ==
    /\ decision.n < MaxDecisions
    /\ \E d \in {DecisionOf(approach, complexity, has_tools, in_collaboration)} :
          decision' = [n |-> decision.n + 1, conclusion |-> approach,
                       complexity |-> complexity, has_tools |-> has_tools,
                       in_collaboration |-> in_collaboration,
                       decision_type |-> d.decision_type, action |-> d.action,
                       confidence |-> d.confidence]
    /\ UNCHANGED <<managerVars, registryVars, runVars, environment_context, collabVars, genVars, oracle,
                   streamVars, memVars, ltmVars, cacheVars, toolVars,
                   perception_state, reasoning_chain, current_plan, plan_update>>

DecideNext ==
    \E approach \in Conclusions, complexity \in Complexities, has_tools \in BOOLEAN,
       in_collaboration \in BOOLEAN :
        Decide(approach, complexity, has_tools, in_collaboration)

DecideSpec == Init /\ [][DecideNext]_vars

\* ------------------------- CognitiveProcessor, perceive -> reason -> decide
\* The five conclusions of _determine_approach, as texts.
MultiStepPlanning == {"multi-step", "planning", "required"}
ToolsForCreation == {"use", "tools", "for", "creation"}
DirectAnswer == {"provide", "direct", "answer"}
ToolsForAnalysis == {"use", "tools", "for", "analysis"}
DirectResponse == {"direct", "response"}

\* _determine_approach with the tool branches tested before the complexity.
DetermineApproachToolsFirst(perception) ==
    IF perception.intent = "creation" /\ perception.has_tools THEN ToolsForCreation
    ELSE IF perception.intent = "analysis" /\ perception.has_tools THEN ToolsForAnalysis
    ELSE IF perception.complexity = "high" THEN MultiStepPlanning
    ELSE IF perception.intent = "question" THEN DirectAnswer
    ELSE DirectResponse

\* _determine_approach(perception, task_goal)
DetermineApproach(perception) ==
    IF perception.complexity = "high" THEN MultiStepPlanning
    ELSE IF perception.intent = "creation" /\ perception.has_tools THEN ToolsForCreation
    ELSE IF perception.intent = "question" THEN DirectAnswer
    ELSE IF perception.intent = "analysis" /\ perception.has_tools THEN ToolsForAnalysis
    ELSE DirectResponse

\* The reasoning step reason(perception, task_goal, constraints) appends and
\* returns; the thoughts, texts built from the same values, are left out.
Reasoned(perception) ==
    [complexity |-> perception.complexity, intent |-> perception.intent,
     urgency |-> perception.urgency, conclusion |-> DetermineApproach(perception)]

\* The messages the pipeline is given: a greeting, a question, a creation, an
\* analysis, a creation that mentions a plan, and a message that itself
\* mentions clarify and delegate.
PipelineTexts == {{"hi"}, {"what"}, {"create"}, {"Analyze"}, {"create", "planning"},
                  {"clarify", "delegate"}}
PipelineMessages ==
    {m \in [length : {2, 201, 600}, text : PipelineTexts] :
        \A word \in m.text : WordLength(word) <= m.length}

\* perceive_environment, reason and decide called in a row on one message,
\* each on what the one before returned, as LLMAgentExecutor.execute calls
\* them (lines 203-229).
Cognition(message, context, available_tools, collaboration_context) ==
    /\ decision.n < MaxDecisions
    /\ LET perception == Perceived(message, context, available_tools,
                                   collaboration_context)
           reasoning == Reasoned(perception)
           d == DecisionOf(reasoning.conclusion, perception.complexity,
                           perception.has_tools, perception.in_collaboration)
       IN  /\ perception_state' = perception
           /\ reasoning_chain' = Append(reasoning_chain, reasoning)
           /\ decision' = [n |-> decision.n + 1, conclusion |-> reasoning.conclusion,
                           complexity |-> perception.complexity,
                           has_tools |-> perception.has_tools,
                           in_collaboration |-> perception.in_collaboration,
                           decision_type |-> d.decision_type, action |-> d.action,
                           confidence |-> d.confidence]
    /\ UNCHANGED <<managerVars, registryVars, runVars, environment_context, collabVars, genVars, oracle,
                   streamVars, memVars, ltmVars, cacheVars, toolVars, current_plan,
                   plan_update>>

PipelineNext ==
    \E message \in PipelineMessages, context \in {NoContextList, 6},
       available_tools \in BOOLEAN, collaboration_context \in BOOLEAN :
        Cognition(message, context, available_tools, collaboration_context)

PipelineSpec == Init /\ [][PipelineNext]_vars
\* ------------------------------------------- CognitiveProcessor, the plan
MaxPlanUpdates == 2

\* The decisions plan_execution is given: a decision type and, for a planned
\* decision, whether parameters holds the four steps of _create_plan_steps
\* (parameters.get("steps", []) is empty otherwise).
PlannedSteps == {0, 4}
PlanDecisions ==
    [decision_type : {"planned"}, steps : PlannedSteps]
        \cup [decision_type : DecisionTypes \ {"planned"}, steps : {0}]

\* len(plan["steps"]) for each decision type (lines 262-310).
StepsOf(d) ==
    CASE d.decision_type = "planned" -> d.steps
      [] d.decision_type = "tool_use" -> 3
      [] d.decision_type = "immediate" -> 1
      [] d.decision_type = "clarify" -> 1
      [] d.decision_type = "delegate" -> 2

\* The plan plan_execution creates. task_id, task_description and created_at
\* are left out.
NewPlan(d) ==
    [exists |-> TRUE, decision_type |-> d.decision_type, status |-> "pending",
     steps |-> StepsOf(d), current_step |-> 0, results |-> <<>>]

\* plan_execution(decision, task_description)
PlanExecution(d) ==
    /\ current_plan' = NewPlan(d)
    /\ UNCHANGED <<managerVars, registryVars, runVars, environment_context, collabVars, genVars, oracle,
                   streamVars, memVars, ltmVars, cacheVars, toolVars,
                   perception_state, reasoning_chain, decision, plan_update>>

\* The arguments of update_plan_status: any step number, any TaskStatus, and
\* a result that is None, empty or a text.
TaskStatuses == {"pending", "in_progress", "completed", "failed", "blocked"}
StepNumbers == {-1, 0, 1, 3, 4}
PlanResults == {"None", "", "done"}

\* update_plan_status with the plan's status taken from the status argument.
UpdatedPlanFollowsStatus(plan, step_number, status, result) ==
    [plan EXCEPT !.current_step = step_number,
                 !.results = IF status = "completed" /\ result \notin {"None", ""}
                             THEN Append(@, [step |-> step_number, result |-> result])
                             ELSE @,
                 !.status = status]

\* The plan update_plan_status leaves (lines 379-391); 'and result' is false
\* for None and for the empty string. The timestamp of a result entry is
\* left out.
UpdatedPlan(plan, step_number, status, result) ==
    [plan EXCEPT !.current_step = step_number,
                 !.results = IF status = "completed" /\ result \notin {"None", ""}
                             THEN Append(@, [step |-> step_number, result |-> result])
                             ELSE @,
                 !.status = IF step_number >= plan.steps THEN "completed"
                            ELSE "in_progress"]

\* update_plan_status(step_number, status, result)
UpdatePlanStatus(step_number, status, result) ==
    /\ plan_update.n < MaxPlanUpdates
    /\ plan_update' = [n |-> plan_update.n + 1, step_number |-> step_number,
                       status |-> status, result |-> result,
                       found |-> current_plan.status]
    /\ current_plan' = IF ~current_plan.exists THEN current_plan
                       ELSE UpdatedPlan(current_plan, step_number, status, result)
    /\ UNCHANGED <<managerVars, registryVars, runVars, environment_context, collabVars, genVars, oracle,
                   streamVars, memVars, ltmVars, cacheVars, toolVars,
                   perception_state, reasoning_chain, decision>>

PlanNext ==
    \/ \E d \in PlanDecisions : PlanExecution(d)
    \/ \E step_number \in StepNumbers, status \in TaskStatuses, result \in PlanResults :
          UpdatePlanStatus(step_number, status, result)

PlanSpec == Init /\ [][PlanNext]_vars

\* C11: get_short_term_memory(limit) returns the most recent limit items of the
\* buffer in insertion order, exactly min(limit, size) items for every
\* limit >= 0, limit = 0 included, and all items when limit is omitted; the
\* buffer is not modified.
C11_RecentLimitItems ==
    recalled.called =>
        LET size == Len(recalled.buffer)
        IN  /\ recalled.given =>
                  /\ Len(recalled.items) = Min(recalled.limit, size)
                  /\ recalled.items = LastN(recalled.buffer, Min(recalled.limit, size))
            /\ ~recalled.given => recalled.items = recalled.buffer
            /\ short_term_memory = recalled.buffer

\* What the code does: the claim's result for every limit >= 1 and for an
\* omitted limit, but the whole buffer for limit = 0.
RecentLimitItemsButZero ==
    recalled.called =>
        LET size == Len(recalled.buffer)
        IN  /\ (recalled.given /\ recalled.limit >= 1) =>
                  recalled.items = LastN(recalled.buffer, Min(recalled.limit, size))
            /\ (recalled.given /\ recalled.limit = 0) => recalled.items = recalled.buffer
            /\ ~recalled.given => recalled.items = recalled.buffer
            /\ short_term_memory = recalled.buffer

\* C12: cache round trip. After set(t, a, R), a get(t, a) with the same
\* arguments in any key order returns R when less than the TTL has passed, and
\* returns nothing and removes the entry when more than the TTL has passed.
C12_CacheRoundTrip ==
    [][(/\ cache_result.op = "set" /\ ~cache_result.raised
        /\ cache_result'.op = "get"
        /\ cache_result'.tool_name = cache_result.tool_name
        /\ DictOf(cache_result'.arguments) = DictOf(cache_result.arguments))
       => LET age == cache_result'.at - cache_result.at
              key == GenerateCacheKey(cache_result.tool_name, cache_result.arguments)
          IN  /\ ~cache_result'.raised
              /\ age < ttl_seconds => cache_result'.result = cache_result.result
              /\ age > ttl_seconds =>
                    /\ cache_result'.result = NoResult
                    /\ ~HasKey(cache', key)]_vars

\* Reached: a get with the keys in the order b, a returns the stored result;
\* and a get finds the entry expired and deletes it.
C12_Witness ==
    /\ cache_result.op = "get"
    /\ cache_result.arguments = << <<"b", "2">>, <<"a", "1">> >>
    /\ cache_result.result = "R2"
    /\ cache_result.at - FromIsoFormat(cache[1].timestamp) < ttl_seconds

CacheGetExpired ==
    /\ cache_result.op = "get"
    /\ cache_result.removed # <<>>
    /\ cache_result.result = NoResult

\* C13: the cache never holds more than max_size entries; a set of a new
\* (tool, args) pair on a cache that holds max_size entries leaves max_size
\* entries, having removed exactly the entry with the oldest timestamp; a get
\* never changes an entry's timestamp.
C13_CacheSizeBound ==
    /\ [](ttl_seconds # NotConstructed => Len(cache) <= max_size)
    /\ [][(/\ cache_result'.op = "set" /\ cache_result' # cache_result
            /\ ~cache_result'.raised
            /\ Len(cache) = max_size
            /\ ~HasKey(cache, GenerateCacheKey(cache_result'.tool_name,
                                               cache_result'.arguments)))
           => /\ Len(cache') = max_size
              /\ \E i \in 1..Len(cache) :
                    /\ cache_result'.removed = <<cache[i]>>
                    /\ \A j \in 1..Len(cache) :
                          j # i => IsoLess(cache[i].timestamp, cache[j].timestamp)
                    /\ Range(cache') \cap Range(cache) = Range(cache) \ {cache[i]}]_vars
    /\ [][cache_result'.op = "get" => Range(cache') \subseteq Range(cache)]_vars

\* Reached: three distinct pairs were set on a cache of two, and the first
\* one set is the one that is gone.
C13_Witness ==
    /\ max_size = 2
    /\ Len(cache) = 2
    /\ cache_result.op = "set"
    /\ Len(cache_result.removed) = 1
    /\ cache_result.removed[1].timestamp = IsoFormat(1)
    /\ \A i \in 1..2 : cache[i].key # cache_result.removed[1].key
    /\ cache[1].key # cache[2].key

\* The records of the history that failed, for one tool.
FailedRecords(tool_name) ==
    {i \in 1..Len(execution_history) :
        /\ execution_history[i].tool_name = tool_name
        /\ ~execution_history[i].success}

\* The soft failure (false, null, message).
SoftFailure(ret) ==
    /\ ~ret.raised
    /\ ~ret.success
    /\ ret.result = NoResult
    /\ ret.error # NoResult

\* The cases C14 names, read off the call that returned last.
UnknownTool(ret) == ret.tool_name \notin DOMAIN tools
MissingClient(ret) ==
    ret.tool_name \in DOMAIN tools /\ ~tools[ret.tool_name] /\ ~mcp_client
MalformedName(ret) ==
    /\ ret.tool_name \in DOMAIN tools /\ ~tools[ret.tool_name]
    /\ Len(SplitName[ret.tool_name]) # 2
RaisingTool(ret) == ret.outcome = Raise

\* C14: execute_tool never propagates an exception, for any tool name,
\* arguments and use_cache: an unknown tool, a missing external client, a
\* malformed external name and a raising tool all give (false, null,
\* message), and a raising tool also records one failed statistics entry.
C14_NeverPropagates ==
    tool_return.called =>
        /\ ~tool_return.raised
        /\ (\/ UnknownTool(tool_return) \/ MissingClient(tool_return)
            \/ MalformedName(tool_return) \/ RaisingTool(tool_return))
              => SoftFailure(tool_return)
        /\ RaisingTool(tool_return) =>
              /\ execution_history # <<>>
              /\ ~Last(execution_history).success
              /\ Last(execution_history).tool_name = tool_return.tool_name
              /\ StatisticsOf(tool_statistics, tool_return.tool_name).failed_calls
                     = Cardinality(FailedRecords(tool_return.tool_name))

\* What the code does: the same, for every call that does not look into the
\* cache with arguments json.dumps rejects.
NeverPropagatesWhenKeyable ==
    (tool_return.called
        /\ ~(tool_return.use_cache /\ ~Serialisable(tool_return.arguments))) =>
        /\ ~tool_return.raised
        /\ (\/ UnknownTool(tool_return) \/ MissingClient(tool_return)
            \/ MalformedName(tool_return) \/ RaisingTool(tool_return))
              => SoftFailure(tool_return)
        /\ RaisingTool(tool_return) =>
              /\ execution_history # <<>>
              /\ ~Last(execution_history).success
              /\ Last(execution_history).tool_name = tool_return.tool_name
              /\ StatisticsOf(tool_statistics, tool_return.tool_name).failed_calls
                     = Cardinality(FailedRecords(tool_return.tool_name))

\* Reached: a raising external tool, returned as a soft failure and recorded
\* as one failed execution.
SoftFailuresReached ==
    /\ tool_return.called
    /\ RaisingTool(tool_return)
    /\ tool_return.tool_name = "srv_echo"
    /\ SoftFailure(tool_return)
    /\ Cardinality(FailedRecords("srv_echo")) = 1

\* The entry of (tool_name, arguments) that a get at the present time would
\* find and not find expired.
LiveEntry(tool_name, arguments) ==
    LET key == GenerateCacheKey(tool_name, arguments)
    IN  IF Serialisable(arguments) /\ HasKey(cache, key)
           /\ now - FromIsoFormat(cache[IndexOf(cache, key)].timestamp) <= ttl_seconds
        THEN <<cache[IndexOf(cache, key)]>>
        ELSE <<>>

\* The step is an execute_tool call with these parameters, seen at its await
\* of the external tool or, when it does not await, at its return.
CallAwaits == pending_call' # pending_call /\ pending_call' # NoCall
CallReturns ==
    /\ pending_call' = pending_call
    /\ tool_return' # tool_return \/ execution_history' # execution_history
    /\ tool_return'.called
CallOf(awaits, pending, ret) ==
    IF awaits THEN [tool_name |-> pending.tool_name, arguments |-> pending.arguments,
                    use_cache |-> pending.use_cache]
    ELSE [tool_name |-> ret.tool_name, arguments |-> ret.arguments,
          use_cache |-> ret.use_cache]

\* The step is the cache hit of the entry: nothing is invoked, the cached
\* result is returned as (true, result, null), the cache is unchanged and one
\* successful record of duration 0 is added.
CacheHitStep(entry) ==
    /\ ~CallAwaits
    /\ invocations' = invocations
    /\ tool_return'.success /\ ~tool_return'.raised
    /\ tool_return'.result = entry.result
    /\ tool_return'.error = NoResult
    /\ cache' = cache
    /\ Len(execution_history') = Len(execution_history) + 1
    /\ SubSeq(execution_history', 1, Len(execution_history)) = execution_history
    /\ Last(execution_history').success
    /\ Last(execution_history').duration = 0
    /\ Last(execution_history').tool_name = tool_return'.tool_name
    /\ StatisticsOf(tool_statistics', tool_return'.tool_name).successful_calls
          = StatisticsOf(tool_statistics, tool_return'.tool_name).successful_calls + 1

\* C15: an execute_tool call with use_cache = true, made while a non-expired
\* cache entry exists for (name, args), does not invoke the tool, returns the
\* cached result as (true, result, null), leaves the cache unchanged and adds
\* exactly one statistics record with success = true and duration 0.
C15_CacheHit ==
    [][\A call \in {CallOf(CallAwaits, pending_call', tool_return')} :
          ((CallAwaits \/ CallReturns) /\ call.use_cache
              /\ LiveEntry(call.tool_name, call.arguments) # <<>>)
          => CacheHitStep(LiveEntry(call.tool_name, call.arguments)[1])]_vars

\* What the code does: the same, for every entry whose result is not None.
CacheHitWhenResultNotNone ==
    [][\A call \in {CallOf(CallAwaits, pending_call', tool_return')} :
          ((CallAwaits \/ CallReturns) /\ call.use_cache
              /\ LiveEntry(call.tool_name, call.arguments) # <<>>
              /\ LiveEntry(call.tool_name, call.arguments)[1].result # NoResult)
          => CacheHitStep(LiveEntry(call.tool_name, call.arguments)[1])]_vars

\* Reached: a call answered from the cache.
CacheHitReached ==
    /\ tool_return.called /\ tool_return.use_cache /\ tool_return.success
    /\ tool_return.outcome = NotInvoked
    /\ Len(execution_history) = 2
    /\ Last(execution_history).duration = 0

\* C16: decide picks its decision_type by strict precedence: the conclusion
\* mentions 'tool' and tools are available: tool_use; else complexity is high
\* or the conclusion mentions 'plan': planned; else it mentions 'clarify' or
\* 'unclear': clarify; else in_collaboration and it mentions 'delegate':
\* delegate; else immediate. Exactly one type is chosen, identical inputs give
\* the identical type, and the confidence lies in [0, 1].
C16_DecidePrecedence ==
    /\ [](decision.n > 0 =>
            LET said(k) == Mentions(decision.conclusion, k)
                type == decision.decision_type
            IN  /\ type \in DecisionTypes
                /\ type = "tool_use" <=> (said("tool") /\ decision.has_tools)
                /\ type = "planned" <=>
                      /\ ~(said("tool") /\ decision.has_tools)
                      /\ decision.complexity = "high" \/ said("plan")
                /\ type = "clarify" <=>
                      /\ ~(said("tool") /\ decision.has_tools)
                      /\ ~(decision.complexity = "high" \/ said("plan"))
                      /\ said("clarify") \/ said("unclear")
                /\ type = "delegate" <=>
                      /\ ~(said("tool") /\ decision.has_tools)
                      /\ ~(decision.complexity = "high" \/ said("plan"))
                      /\ ~(said("clarify") \/ said("unclear"))
                      /\ decision.in_collaboration /\ said("delegate")
                /\ decision.confidence >= 0 /\ decision.confidence <= 100)
    /\ [][(/\ decision.n > 0 /\ decision'.n > decision.n
            /\ decision'.conclusion = decision.conclusion
            /\ decision'.complexity = decision.complexity
            /\ decision'.has_tools = decision.has_tools
            /\ decision'.in_collaboration = decision.in_collaboration)
           => decision'.decision_type = decision.decision_type]_vars

\* Reached: a conclusion that mentions both 'Tool' and 'planning', with tools
\* available, decided twice: tool_use both times.
C16_Witness ==
    /\ decision.n = 2
    /\ decision.conclusion = {"Tool", "planning"}
    /\ decision.has_tools
    /\ decision.decision_type = "tool_use"

\* The score C17 gives.
ClaimedScore(length, context_size, text) ==
    (IF length > 500 THEN 2 ELSE IF length > 200 THEN 1 ELSE 0)
  + (IF context_size > 5 THEN 1 ELSE 0)
  + (IF \E k \in complex_keywords : Mentions(text, k) THEN 1 ELSE 0)

\* C17: perceive classifies complexity from the score (2 for a message longer
\* than 500, else 1 for longer than 200) + (1 for more than 5 context
\* entries) + (1 when the message contains a complexity keyword, counted
\* once): 3 or more is high, 1 or 2 medium, 0 low; a 600-character message
\* containing 'analyze' is high, 'hi' without context is low.
C17_ComplexityScore ==
    perception_state.perceived =>
        LET score == ClaimedScore(perception_state.message_length,
                                  perception_state.context_size,
                                  perception_state.current_message)
        IN  /\ score >= 3 => perception_state.complexity = "high"
            /\ score \in {1, 2} => perception_state.complexity = "medium"
            /\ score = 0 => perception_state.complexity = "low"
            /\ (perception_state.message_length = 600
                   /\ Mentions(perception_state.current_message, "analyze"))
                  => perception_state.complexity = "high"
            /\ (perception_state.current_message = {"hi"}
                   /\ perception_state.message_length = 2
                   /\ perception_state.context_size = 0)
                  => perception_state.complexity = "low"

\* Reached: the 600-character message with 'Analyze' is high, without any
\* context.
C17_Witness ==
    /\ perception_state.perceived
    /\ perception_state.message_length = 600
    /\ perception_state.current_message = {"Analyze"}
    /\ perception_state.context_size = 0
    /\ perception_state.complexity = "high"

\* Reached: two keywords in a message of 201 characters count once: medium.
KeywordsCountOnce ==
    /\ perception_state.perceived
    /\ perception_state.message_length = 201
    /\ perception_state.current_message = {"Analyze", "planning"}
    /\ perception_state.context_size = 0
    /\ perception_state.complexity = "medium"

\* x ranks above y in the order by importance descending, then timestamp
\* descending.
RanksAbove(x, y) ==
    \/ x.importance > y.importance
    \/ x.importance = y.importance /\ IsoLess(y.timestamp, x.timestamp)

\* C18: search_long_term_memory(type, limit, min_importance) returns only
\* this agent's records with importance >= min_importance, of the given type
\* when one is given, ordered by importance descending then timestamp
\* descending; it returns the first limit of them, and omits no qualifying
\* record that ranks above a returned one.
C18_SearchLongTerm ==
    [][search_result'.n > search_result.n =>
        LET rows == Range(long_term_memory)
            found == search_result'.memories
            asked == search_result'
            qualifying == {row \in rows :
                              /\ row.agent_id = ThisAgent
                              /\ row.importance >= asked.min_importance
                              /\ asked.memory_type # NoType =>
                                    row.memory_type = asked.memory_type}
        IN  /\ Range(found) \subseteq {MemoryOf(row) : row \in qualifying}
            /\ \A i, j \in 1..Len(found) : i < j =>
                  (found[i] # found[j] /\ ~RanksAbove(found[j], found[i]))
            /\ asked.limit >= 0 =>
                  Len(found) = Min(asked.limit, Cardinality(qualifying))
            /\ \A row \in qualifying :
                  MemoryOf(row) \notin Range(found) =>
                    \A i \in 1..Len(found) : ~RanksAbove(row, found[i])]_vars

\* Reached: a search with limit 1 over two qualifying records returned the
\* one of importance 0.8 and left out the newer one of importance 0.5.
C18_Witness ==
    /\ search_result.n > 0
    /\ search_result.limit = 1
    /\ Len(search_result.memories) = 1
    /\ search_result.memories[1].importance = 8
    /\ \E i \in 1..Len(long_term_memory) :
          /\ long_term_memory[i].agent_id = ThisAgent
          /\ long_term_memory[i].importance = 5
          /\ long_term_memory[i].accessed_count = 0
          /\ IsoLess(search_result.memories[1].timestamp, long_term_memory[i].timestamp)
          /\ search_result.memory_type # NoType =>
                long_term_memory[i].memory_type = search_result.memory_type
          /\ long_term_memory[i].importance >= search_result.min_importance

\* Reached: the other agent's record of importance 0.8 is in the table and a
\* search without a limit returned this agent's record of importance 0.5 alone.
OtherAgentLeftOut ==
    /\ search_result.n > 0
    /\ search_result.limit = -1
    /\ Len(search_result.memories) = 1
    /\ search_result.memories[1].importance = 5
    /\ \E i \in 1..Len(long_term_memory) :
          long_term_memory[i].agent_id # ThisAgent /\ long_term_memory[i].importance = 8

\* The agent events of round r, in turn order.
TurnsOfRound(history, r) == SelectSeq(history, LAMBDA ev : ev.kind = "agent" /\ ev.round = r)

\* The last turn of agent_id in a round's turns.
LastTurnOf(turns, agent_id) ==
    Last(SelectSeq(turns, LAMBDA ev : ev.agent_id = agent_id))

RepeatedIdHidesFailure ==
    /\ Returned
    /\ NumAgents = 2
    /\ collab.agent_ids[1] = collab.agent_ids[2]
    /\ collab.max_rounds = 1
    /\ oracle = <<"raise", "ok">>
    /\ RoundEvents(collab.history)[1].all_completed

\* The context of a participating agent of the collaborate_agents call, with
\* the flag as given: the collaboration keys merged in, the key it had kept.
InRunContext(context, flag) ==
    /\ DOMAIN context = {"locale", "in_collaboration", "total_agents", "agent_ids",
                         "coordinator_id", "task"}
    /\ context.in_collaboration = flag
    /\ context.total_agents = Len(collab.agent_ids)
    /\ context.agent_ids = collab.agent_ids
    /\ context.coordinator_id = collab.coordinator_id
    /\ context.task = collab.task
    /\ context.locale = "en"

\* C20: for a single collaboration run in isolation, every participating
\* agent's environment context has in_collaboration = true, with
\* total_agents, agent_ids, coordinator_id and task merged in and its other
\* keys kept, from initialize until the last round ends, and has
\* in_collaboration = false once the final event has been emitted, whatever
\* turns failed; the other agents' contexts are not touched.
C20_InCollaboration ==
    gen.pc \in {"idle", "created"} =>
        /\ collab.pc = "await" =>
              /\ Last(collab.history).kind # "final"
              /\ \A a \in Range(collab.agent_ids) :
                    InRunContext(environment_context[a], TRUE)
        /\ collab.pc = "done" =>
              /\ Last(collab.history).kind = "final"
              /\ \A a \in Range(collab.agent_ids) :
                    InRunContext(environment_context[a], FALSE)
        /\ \A a \in agents \ Range(collab.agent_ids) :
              environment_context[a] = InitialEnvironment[a]

\* Reached: both agents took part, a turn failed, and the call has returned.
C20_Witness ==
    /\ gen.pc = "idle"
    /\ Returned
    /\ Range(collab.agent_ids) = {"a1", "a2"}
    /\ "raise" \in Range(oracle)
    /\ \A a \in agents : environment_context[a].in_collaboration = FALSE

\* Reached: the last turn of the last round is awaited, after a failed turn,
\* and the flag is still set.
InCollaborationInLastRound ==
    /\ gen.pc = "idle"
    /\ collab.pc = "await"
    /\ collab.round_num + 1 = collab.max_rounds
    /\ collab.idx + 1 = NumAgents
    /\ "raise" \in Range(oracle)
    /\ \A a \in Range(collab.agent_ids) : environment_context[a].in_collaboration

\* Call i is executing its rounds: it awaits a turn.
InRounds(i) == calls[i].pc = "await"

\* C21: two collaborate_agents calls that run at once and share an agent are
\* not isolated: whatever the other call is doing, the initialize of a call
\* writes its own coordinator_id and task, with in_collaboration = true, into
\* the context of each of its agents, and its finalize sets their
\* in_collaboration to false; the shared context belongs to the last writer.
C21_NotIsolated ==
    [][\A i \in 1..2 :
          /\ (calls[i].pc = "idle" /\ calls'[i].pc = "await") =>
                \A a \in Range(calls'[i].agent_ids) :
                    /\ environment_context'[a].in_collaboration
                    /\ environment_context'[a].coordinator_id = calls'[i].coordinator_id
                    /\ environment_context'[a].task = calls'[i].task
          /\ (calls[i].pc # "done" /\ calls'[i].pc = "done") =>
                \A a \in Range(calls'[i].agent_ids) :
                    ~environment_context'[a].in_collaboration]_vars

\* Reached: call 2 is still executing its rounds with agent a1, call 1 has
\* returned, and its finalize has left a1's in_collaboration false.
C21_Witness ==
    /\ InRounds(2)
    /\ calls[1].pc = "done"
    /\ calls[1].max_rounds > 0
    /\ "a1" \in Range(calls[1].agent_ids) \cap Range(calls[2].agent_ids)
    /\ ~environment_context["a1"].in_collaboration

\* Reached: call 1 is still executing its rounds with agent a1, whose context
\* holds the coordinator and the task of call 2, which is also in its rounds.
OtherCallOverwrote ==
    /\ InRounds(1)
    /\ InRounds(2)
    /\ environment_context["a1"].in_collaboration
    /\ environment_context["a1"].task = calls[2].task
    /\ environment_context["a1"].task # calls[1].task
    /\ environment_context["a1"].coordinator_id = calls[2].coordinator_id
    /\ environment_context["a1"].coordinator_id # calls[1].coordinator_id

\* The 1-based round of the t-th turn of the collaborate_agents call.
RoundOfTurn(t) == ((t - 1) \div NumAgents) + 1

\* The history as it was when the prompt of the t-th turn was built: the
\* start event and, for every earlier round, its turns and its summary, then
\* the earlier turns of the round.
HistoryAtTurn(t) ==
    SubSeq(collab.history, 1,
           1 + (RoundOfTurn(t) - 1) * (NumAgents + 1) + ((t - 1) % NumAgents))

CoordinatorEvents(history) ==
    SelectSeq(history, LAMBDA ev : ev.kind = "agent" /\ ev.agent_id = collab.coordinator_id)

\* C22: a worker's prompt embeds the content of the most recent coordinator
\* event present in the run's history at the moment of the turn, of the
\* current round if the coordinator already spoke in it and of an earlier
\* round otherwise, and it is the 'await assignment' fallback prompt exactly
\* when the history holds no coordinator event yet.
C22_WorkerPrompt ==
    \A t \in 1..Len(sent) :
        sent[t].agent_id # collab.coordinator_id =>
            LET spoken == CoordinatorEvents(HistoryAtTurn(t))
            IN  /\ sent[t].prompt.kind \in {"worker", "worker_fallback"}
                /\ sent[t].prompt.kind = "worker_fallback" <=> spoken = <<>>
                /\ spoken # <<>> =>
                      /\ sent[t].prompt.latest = Last(spoken).content
                      /\ \A ev \in Range(spoken) : ev.round <= Last(spoken).round
                /\ spoken = <<>> =>
                      /\ sent[t].prompt.latest = NoContent
                      /\ sent[t].prompt.task = collab.task

\* Reached: in round 2 the worker, who speaks before the coordinator, was
\* given the coordinator's output of round 1, and in round 1 the fallback.
C22_Witness ==
    /\ Returned
    /\ collab.agent_ids = <<"a2", "a1">>
    /\ collab.coordinator_id = "a1"
    /\ collab.max_rounds = 2
    /\ sent[1].prompt.kind = "worker_fallback"
    /\ sent[3].prompt.kind = "worker"
    /\ sent[3].prompt.latest.text = Reply("a1", 1)

\* Reached: the worker speaks after the coordinator and was given the
\* coordinator's output of the current round 2, not that of round 1.
WorkerGivenCurrentRound ==
    /\ Returned
    /\ collab.agent_ids = <<"a1", "a2">>
    /\ collab.coordinator_id = "a1"
    /\ collab.max_rounds = 2
    /\ sent[4].prompt.kind = "worker"
    /\ sent[4].prompt.latest.text = Reply("a1", 2)

\* The agent events of round r of `history` whose agent is not the coordinator.
WorkerEventsOfRound(history, r) ==
    SelectSeq(history, LAMBDA ev :
        ev.kind = "agent" /\ ev.round = r /\ ev.agent_id # collab.coordinator_id)

\* C23: the coordinator is given the initial assignment prompt in round 1 and
\* a review prompt in every round r > 1; the review prompt holds exactly the
\* agent events of round r-1 whose agent is not the coordinator, in history
\* order, and the 'no worker responses' placeholder exactly when there are
\* none; events of rounds older than r-1 and of round r are not in it.
C23_CoordinatorPrompt ==
    \A t \in 1..Len(sent) :
        sent[t].agent_id = collab.coordinator_id =>
            LET r == RoundOfTurn(t)
                reviewed == WorkerEventsOfRound(collab.history, r - 1)
            IN  /\ r = 1 => /\ sent[t].prompt.kind = "coordinator_initial"
                            /\ sent[t].prompt.task = collab.task
                            /\ sent[t].prompt.results = <<>>
                /\ r > 1 =>
                      /\ sent[t].prompt.kind = "coordinator_review"
                      /\ sent[t].prompt.round = r
                      /\ sent[t].prompt.results =
                            [i \in 1..Len(reviewed) |->
                                [name |-> reviewed[i].agent_name,
                                 content |-> reviewed[i].content]]
                      /\ sent[t].prompt.no_responses <=> reviewed = <<>>

\* Reached: in round 2 the coordinator, who speaks after the worker, was
\* given the worker's failed turn of round 1 and not its turn of round 2.
C23_Witness ==
    /\ Returned
    /\ collab.agent_ids = <<"a2", "a1">>
    /\ collab.coordinator_id = "a1"
    /\ collab.max_rounds = 2
    /\ oracle[1] = "raise"
    /\ Len(sent[4].prompt.results) = 1
    /\ sent[4].prompt.results[1].content.text = Reply("a2", 1)
    /\ sent[4].prompt.results[1].content.err

\* Reached: in round 3 the coordinator was given the worker's turn of round 2
\* alone, although the worker also spoke in round 1.
ReviewLeavesOutOlderRounds ==
    /\ collab.agent_ids = <<"a1", "a2">>
    /\ collab.coordinator_id = "a1"
    /\ collab.max_rounds = 3
    /\ Len(sent) >= 5
    /\ Len(WorkerEventsOfRound(collab.history, 1)) = 1
    /\ Len(sent[5].prompt.results) = 1
    /\ sent[5].prompt.results[1].content.text = Reply("a2", 2)

\* Reached: a coordinator working alone is given the placeholder in round 2.
ReviewWithoutWorkers ==
    /\ Returned
    /\ collab.agent_ids = <<"a1">>
    /\ collab.max_rounds = 2
    /\ sent[2].prompt.kind = "coordinator_review"
    /\ sent[2].prompt.no_responses

\* The turns of round r of the collaborate_agents call that were given a
\* coordinator prompt.
CoordinatorTurns(r) ==
    {t \in 1..Len(sent) :
        /\ RoundOfTurn(t) = r
        /\ sent[t].prompt.kind \in {"coordinator_initial", "coordinator_review"}}

WorkerTurns(r) ==
    {t \in 1..Len(sent) :
        /\ RoundOfTurn(t) = r
        /\ sent[t].prompt.kind \in {"worker", "worker_fallback"}}

\* The coordinator of the call: the id given, the first agent otherwise.
DesignatedCoordinator ==
    IF collab.coordinator_arg # NoId THEN collab.coordinator_arg ELSE collab.agent_ids[1]

\* C24: in every round of a validated collaboration exactly one turn is a
\* coordinator turn, taken by the agent whose id is the given coordinator_id,
\* or by the first agent of agent_ids when none is given, and every other
\* turn of the round is a worker turn.
C24_OneCoordinatorTurn ==
    Returned =>
        \A r \in 1..collab.max_rounds :
            /\ Cardinality(CoordinatorTurns(r)) = 1
            /\ \A t \in CoordinatorTurns(r) : sent[t].agent_id = DesignatedCoordinator
            /\ Cardinality(WorkerTurns(r)) = NumAgents - 1

\* What holds of the roles: a turn is a coordinator turn exactly when its
\* agent is the designated coordinator, and a worker turn otherwise; there is
\* one coordinator turn a round when the coordinator is listed once.
RoleFollowsCoordinatorId ==
    Returned =>
        \A r \in 1..collab.max_rounds :
            /\ \A t \in 1..Len(sent) :
                  RoundOfTurn(t) = r =>
                      (t \in CoordinatorTurns(r) <=> sent[t].agent_id = DesignatedCoordinator)
            /\ CoordinatorTurns(r) \cup WorkerTurns(r) = {t \in 1..Len(sent) : RoundOfTurn(t) = r}
            /\ Cardinality({i \in 1..NumAgents : collab.agent_ids[i] = DesignatedCoordinator}) = 1
                  => Cardinality(CoordinatorTurns(r)) = 1

\* Reached: the coordinator given is registered but not listed in agent_ids,
\* and no turn of the run was a coordinator turn.
NoCoordinatorTurn ==
    /\ Returned
    /\ collab.max_rounds > 0
    /\ collab.coordinator_arg # NoId
    /\ collab.coordinator_arg \notin Range(collab.agent_ids)
    /\ \A r \in 1..collab.max_rounds : CoordinatorTurns(r) = {}

\* Reached: the coordinator is listed twice and both turns of the round were
\* coordinator turns.
TwoCoordinatorTurns ==
    /\ Returned
    /\ collab.max_rounds > 0
    /\ Cardinality(CoordinatorTurns(1)) = 2

\* C25: after any sequence of save_task and update_task calls on a task,
\* the record's completed_at is set only if its status is completed or
\* failed; it is never present on a record whose status is started.
C25_CompletedAtOnlyTerminal ==
    \A i \in 1..Len(task_history) :
        task_history[i].completed_at # NoResult =>
            task_history[i].status \in {"completed", "failed"}

\* What holds of completed_at: a call changes it only on the rows it sets to
\* completed or failed, to the time of the call, and nothing clears it.
CompletedAtStampedOnTerminalUpdate ==
    [][\A i \in 1..Len(task_history) :
          /\ task_history'[i].completed_at # task_history[i].completed_at =>
                /\ task_history'[i].status \in {"completed", "failed"}
                /\ task_history'[i].completed_at = IsoFormat(now)
          /\ task_history[i].completed_at # NoResult =>
                task_history'[i].completed_at # NoResult]_vars

\* Reached: a task that was completed and then set back to started keeps its
\* completed_at.
ReopenedTaskKeepsCompletedAt ==
    \E i \in 1..Len(task_history) :
        /\ task_history[i].status = "started"
        /\ task_history[i].completed_at # NoResult

C27_DiscoverUpserts ==
    /\ [][tools # NoTools => DOMAIN tools \subseteq DOMAIN tools']_vars
    /\ [](tools # NoTools => BuiltinTools \subseteq DOMAIN tools)
    /\ [][discover_return' # discover_return =>
            LET ret == discover_return'
                names == {ToolNameOf(listed) : listed \in ret.listed}
            IN  /\ \A name \in names : name \in DOMAIN tools' /\ ~tools'[name]
                /\ \A name \in DOMAIN tools \ names : tools'[name] = tools[name]
                /\ DOMAIN tools' = DOMAIN tools \cup names
                /\ ret.names = DOMAIN tools'
                /\ (ret.failed \/ ~mcp_client) => (ret.listed = {} /\ tools' = tools)]_vars

\* Reached: a discovery that listed nothing has returned the tools of an
\* earlier discovery, one of them under the name of a built-in, with the
\* other built-in.
C27_Witness ==
    /\ discover_return.called
    /\ mcp_client
    /\ ~discover_return.failed
    /\ discover_return.listed = {}
    /\ discover_return.names =
          {"text_summarize", "text_extract_keywords", "srv_echo", "my_srv_echo"}
    /\ ~tools["text_summarize"]
    /\ tools["text_extract_keywords"]

\* Reached: a discovery whose listing failed, after one that registered a tool.
DiscoveryFailedReached ==
    /\ discover_return.failed
    /\ discover_return.names = BuiltinTools \cup {"srv_echo"}
    /\ DOMAIN tools = discover_return.names

\* The (source, tool) pairs discover_tools registers under a name.
RegisteredFrom(tool_name) == {listed \in ListedTools : ToolNameOf(listed) = tool_name}

\* C28: for every capability discover_tools registered from source S and
\* tool T, execute_tool on its registered name delegates to the external call
\* with exactly source S and tool T, for every source and tool name.
C28_DiscoverExecuteRoundTrip ==
    \A i \in 1..Len(invocations) :
        invocations[i].server_name # NoResult =>
            <<invocations[i].server_name, invocations[i].actual_tool_name>>
                \in RegisteredFrom(invocations[i].tool_name)

\* What holds: the external call is made with the registered name split at
\* its first underscore, which is (S, T) when S has no underscore.
RoundTripAtFirstUnderscore ==
    \A i \in 1..Len(invocations) :
        invocations[i].server_name # NoResult =>
            /\ <<invocations[i].server_name, invocations[i].actual_tool_name>>
                  = SplitName[invocations[i].tool_name]
            /\ invocations[i].tool_name \in {"srv_echo", "text_summarize"} =>
                  <<invocations[i].server_name, invocations[i].actual_tool_name>>
                      \in RegisteredFrom(invocations[i].tool_name)

\* Reached: the tool echo of server my_srv was called as tool srv_echo of
\* server my.
CalledOnWrongServer ==
    \E i \in 1..Len(invocations) :
        /\ invocations[i].tool_name = "my_srv_echo"
        /\ invocations[i].server_name = "my"
        /\ invocations[i].actual_tool_name = "srv_echo"

\* The step is an execute_tool call on an unregistered name that ends as
\* (false, null, not-found message) and writes nothing.
NotFoundStep ==
    /\ ~tool_return'.raised
    /\ ~tool_return'.success
    /\ tool_return'.result = NoResult
    /\ tool_return'.error = "not found"
    /\ cache' = cache
    /\ tool_statistics' = tool_statistics
    /\ execution_history' = execution_history
    /\ invocations' = invocations

\* C29: execute_tool on a name that is not in the registry returns (false,
\* null, not-found message) and leaves the cache, the per-tool statistics and
\* the execution history unchanged.
C29_UnknownTool ==
    [][(CallReturns /\ tool_return'.tool_name \notin DOMAIN tools) => NotFoundStep]_vars

\* What holds: the same, for every call that does not look into the cache
\* with arguments json.dumps rejects; such a call raises, and writes nothing.
UnknownToolWhenKeyable ==
    [][(CallReturns /\ tool_return'.tool_name \notin DOMAIN tools) =>
          IF tool_return'.use_cache /\ ~Serialisable(tool_return'.arguments)
          THEN /\ tool_return'.raised
               /\ cache' = cache
               /\ tool_statistics' = tool_statistics
               /\ execution_history' = execution_history
          ELSE NotFoundStep]_vars

\* Reached: an unregistered name answered with not found, with and without
\* the cache, while the cache and the history hold entries.
NotFoundReached ==
    /\ tool_return.called
    /\ tool_return.tool_name = "missing"
    /\ tool_return.error = "not found"
    /\ cache # <<>>
    /\ execution_history # <<>>

\* The records of the history of one tool.
RecordsOf(history, tool_name) ==
    {i \in 1..Len(history) : history[i].tool_name = tool_name}

\* C30: after any sequence of execute_tool calls, for every tool total_calls
\* = successful_calls + failed_calls = the number of execution-history
\* records of that tool; each recorded execution increments total_calls and
\* exactly one of the two other counters by one, and no counter decreases.
C30_StatisticsAddUp ==
    /\ [](/\ \A i \in 1..Len(execution_history) :
                execution_history[i].tool_name \in DOMAIN tool_statistics
           /\ \A name \in DOMAIN tool_statistics :
                /\ tool_statistics[name].total_calls
                      = tool_statistics[name].successful_calls
                          + tool_statistics[name].failed_calls
                /\ tool_statistics[name].total_calls
                      = Cardinality(RecordsOf(execution_history, name))
                /\ tool_statistics[name].failed_calls
                      = Cardinality(FailedRecords(name)))
    /\ [][tools # NoTools =>
            /\ Len(execution_history') \in {Len(execution_history), Len(execution_history) + 1}
            /\ SubSeq(execution_history', 1, Len(execution_history)) = execution_history
            /\ \A name \in DOMAIN tool_statistics' :
                  LET old == StatisticsOf(tool_statistics, name)
                      new == tool_statistics'[name]
                      recorded == /\ Len(execution_history') > Len(execution_history)
                                  /\ Last(execution_history').tool_name = name
                  IN  IF recorded
                      THEN /\ new.total_calls = old.total_calls + 1
                           /\ IF Last(execution_history').success
                              THEN /\ new.successful_calls = old.successful_calls + 1
                                   /\ new.failed_calls = old.failed_calls
                              ELSE /\ new.successful_calls = old.successful_calls
                                   /\ new.failed_calls = old.failed_calls + 1
                      ELSE /\ new.total_calls = old.total_calls
                           /\ new.successful_calls = old.successful_calls
                           /\ new.failed_calls = old.failed_calls]_vars

\* Reached: one tool with a successful and a failed execution on record.
C30_Witness ==
    /\ "srv_echo" \in DOMAIN tool_statistics
    /\ tool_statistics["srv_echo"].total_calls = 2
    /\ tool_statistics["srv_echo"].successful_calls = 1
    /\ tool_statistics["srv_echo"].failed_calls = 1
    /\ Len(execution_history) = 2

\* The step ends a fresh execution with success: the tool was invoked, it
\* answered, and the answer was recorded.
FreshSuccessStep ==
    /\ Len(execution_history') = Len(execution_history) + 1
    /\ tool_return'.called /\ tool_return'.success
    /\ tool_return'.outcome # NotInvoked

\* The step records one successful entry for the tool of the call and returns
\* (true, result, null).
RecordsAndReturns ==
    /\ ~tool_return'.raised
    /\ tool_return'.result = tool_return'.outcome
    /\ tool_return'.error = NoResult
    /\ SubSeq(execution_history', 1, Len(execution_history)) = execution_history
    /\ Last(execution_history').tool_name = tool_return'.tool_name
    /\ Last(execution_history').success
    /\ Last(execution_history').result = tool_return'.result
    /\ StatisticsOf(tool_statistics', tool_return'.tool_name).successful_calls
          = StatisticsOf(tool_statistics, tool_return'.tool_name).successful_calls + 1
    /\ StatisticsOf(tool_statistics', tool_return'.tool_name).failed_calls
          = StatisticsOf(tool_statistics, tool_return'.tool_name).failed_calls

\* The cache the step leaves holds the returned result under (name, args).
StoredAfter ==
    /\ Serialisable(tool_return'.arguments)
    /\ HasKey(cache', GenerateCacheKey(tool_return'.tool_name, tool_return'.arguments))
    /\ cache'[IndexOf(cache', GenerateCacheKey(tool_return'.tool_name,
                                                tool_return'.arguments))].result
          = tool_return'.result

\* An execute_tool call with the same name and args and use_cache = true,
\* made right after the step, takes its answer from the cache: the lookup
\* gives the result and the result is not None, the test of line 409.
ServedFromCacheAfter ==
    /\ Serialisable(tool_return'.arguments)
    /\ LET got == Get(cache', ttl_seconds', now', tool_return'.tool_name,
                      tool_return'.arguments)
       IN  /\ ~got.raised
           /\ got.result = tool_return'.result
           /\ got.result # NoResult

\* C31: every successful fresh (non-cache-hit) execution stores its result in
\* the cache under (name, args), records one successful statistics entry and
\* returns (true, result, null), so an execute_tool call with the same name
\* and args and use_cache = true issued immediately afterwards is served from
\* the cache without invoking the tool.
C31_FreshSuccessCached ==
    [][FreshSuccessStep => (RecordsAndReturns /\ StoredAfter /\ ServedFromCacheAfter)]_vars

\* What the code does: every fresh success is recorded and returned; it is
\* stored when the call had use_cache = true; the next call is served from
\* the cache when, besides, the result is not None.
FreshSuccessCachedWhenAsked ==
    [][FreshSuccessStep =>
          /\ RecordsAndReturns
          /\ tool_return'.use_cache => StoredAfter
          /\ (tool_return'.use_cache /\ tool_return'.result # NoResult)
                => ServedFromCacheAfter
          /\ ~tool_return'.use_cache => cache' = cache]_vars

\* Reached: a fresh success with use_cache = true whose result, None, is
\* stored and not served to the next call.
NoneStoredNotServed ==
    /\ tool_return.called /\ tool_return.success /\ tool_return.use_cache
    /\ tool_return.outcome = NoResult
    /\ HasKey(cache, GenerateCacheKey(tool_return.tool_name, tool_return.arguments))
    /\ Get(cache, ttl_seconds, now, tool_return.tool_name, tool_return.arguments).result
          = NoResult

\* Reached: a fresh success with use_cache = true, stored beside an older
\* entry and served to the next call.
FreshSuccessServedNext ==
    /\ tool_return.called /\ tool_return.success /\ tool_return.use_cache
    /\ tool_return.outcome = "R1"
    /\ Len(cache) = 2
    /\ Get(cache, ttl_seconds, now, tool_return.tool_name, tool_return.arguments).result
          = "R1"

\* The step is an update_plan_status call.
PlanUpdated == plan_update'.n = plan_update.n + 1

\* C32: update_plan_status(step_number, status, result) sets current_step to
\* step_number, appends a result entry only when status is completed and a
\* result is provided, and sets the plan's status to completed exactly when
\* step_number >= number of steps and to in_progress otherwise, regardless of
\* the status argument; a plan never becomes failed or blocked; with no
\* current plan the call changes nothing.
C32_UpdatePlanStatus ==
    /\ [](current_plan.status \notin {"failed", "blocked"})
    /\ [][PlanUpdated =>
            IF ~current_plan.exists
            THEN current_plan' = current_plan
            ELSE /\ current_plan'.exists
                 /\ current_plan'.steps = current_plan.steps
                 /\ current_plan'.decision_type = current_plan.decision_type
                 /\ current_plan'.current_step = plan_update'.step_number
                 /\ \/ current_plan'.results = current_plan.results
                    \/ /\ plan_update'.status = "completed"
                       /\ plan_update'.result \notin {"None", ""}
                       /\ current_plan'.results
                             = Append(current_plan.results,
                                      [step |-> plan_update'.step_number,
                                       result |-> plan_update'.result])
                 /\ (plan_update'.status = "completed" /\ plan_update'.result = "done")
                       => Len(current_plan'.results) = Len(current_plan.results) + 1
                 /\ current_plan'.status
                       = IF plan_update'.step_number >= current_plan.steps
                         THEN "completed" ELSE "in_progress"]_vars

\* Reached: a completed plan is back in_progress after an update whose status
\* argument was failed.
C32_Witness ==
    /\ plan_update.found = "completed"
    /\ plan_update.status = "failed"
    /\ current_plan.status = "in_progress"
    /\ Len(current_plan.results) = 1

\* Reached: update_plan_status called with no plan.
UpdateWithoutPlan ==
    /\ plan_update.n = 1 /\ plan_update.found = "None" /\ current_plan = NoPlan

\* C33: when decisions are produced through the pipeline perceive -> reason
\* -> decide, only tool_use, planned and immediate are reachable: the decision
\* is planned exactly when complexity is high, and clarify and delegate are
\* never produced, because reason can only conclude one of five fixed
\* strings, none of which mentions clarify, unclear or delegate.
C33_PipelineDecisions ==
    decision.n > 0 =>
        /\ decision.decision_type \in {"tool_use", "planned", "immediate"}
        /\ decision.decision_type = "planned" <=> perception_state.complexity = "high"
        /\ Len(reasoning_chain) = decision.n
        /\ \A i \in 1..Len(reasoning_chain) :
              /\ reasoning_chain[i].conclusion \in
                    {MultiStepPlanning, ToolsForCreation, DirectAnswer,
                     ToolsForAnalysis, DirectResponse}
              /\ \A k \in {"clarify", "unclear", "delegate"} :
                    ~Mentions(reasoning_chain[i].conclusion, k)
        /\ decision.conclusion = Last(reasoning_chain).conclusion

\* Reached: in a collaboration, a message that itself mentions clarify and
\* delegate is answered immediately.
C33_Witness ==
    /\ decision.n > 0
    /\ perception_state.current_message = {"clarify", "delegate"}
    /\ perception_state.in_collaboration
    /\ decision.decision_type = "immediate"

\* Reached: a creation of high complexity, with tools, is planned; a creation
\* of lower complexity, with tools, uses a tool.
HighComplexityPlanned ==
    /\ decision.n = 2
    /\ reasoning_chain[1] = [complexity |-> "medium", intent |-> "creation",
                             urgency |-> "low", conclusion |-> ToolsForCreation]
    /\ perception_state.intent = "creation" /\ perception_state.has_tools
    /\ perception_state.complexity = "high"
    /\ decision.decision_type = "planned"

\* The failed turns among the worker events of round r.
FailedWorkerEventsOfRound(history, r) ==
    SelectSeq(WorkerEventsOfRound(history, r), LAMBDA ev : ev.error)

\* C34: a coordinator turn that fails is still treated as coordinator output:
\* its error event is what later worker turns find as the latest coordinator
\* message, so workers receive the error text as their instructions (not the
\* fallback prompt) until the coordinator succeeds in a later turn; likewise
\* failed worker turns of round r-1 are listed in the coordinator's round-r
\* review prompt.
C34_FailedTurnsQuoted ==
    \A t \in 1..Len(sent) :
        LET r == RoundOfTurn(t)
            spoken == CoordinatorEvents(HistoryAtTurn(t))
            failed == FailedWorkerEventsOfRound(collab.history, r - 1)
            quoted == SelectSeq(sent[t].prompt.results, LAMBDA res : res.content.err)
        IN  /\ (sent[t].agent_id # collab.coordinator_id /\ spoken # <<>>) =>
                  IF Last(spoken).error
                  THEN /\ sent[t].prompt.kind = "worker"
                       /\ sent[t].prompt.latest = Last(spoken).content
                       /\ sent[t].prompt.latest.err
                  ELSE ~sent[t].prompt.latest.err
            /\ (sent[t].agent_id = collab.coordinator_id /\ r > 1) =>
                  quoted = [i \in 1..Len(failed) |->
                               [name |-> failed[i].agent_name,
                                content |-> failed[i].content]]

\* Reached: the coordinator and the worker both fail in round 1; the worker
\* of round 1 is given the coordinator's error text, the coordinator of round
\* 2 is given the worker's error text, and the worker of round 2 is given the
\* coordinator's reply of round 2.
C34_Witness ==
    /\ Returned
    /\ collab.agent_ids = <<"a1", "a2">>
    /\ collab.coordinator_id = "a1"
    /\ collab.max_rounds = 2
    /\ oracle = <<"raise", "raise", "ok", "ok">>
    /\ sent[2].prompt.kind = "worker"
    /\ sent[2].prompt.latest = [name |-> "Alice", err |-> TRUE, text |-> Reply("a1", 1)]
    /\ sent[3].prompt.results
          = <<[name |-> "Bob",
               content |-> [name |-> "Bob", err |-> TRUE, text |-> Reply("a2", 1)]]>>
    /\ sent[4].prompt.latest = [name |-> "Alice", err |-> FALSE, text |-> Reply("a1", 2)]

\* Reached: the coordinator fails in round 2 after a success in round 1; the
\* worker of round 2 is given the error text, not the reply of round 1.
LaterErrorReplacesInstructions ==
    /\ Returned
    /\ collab.agent_ids = <<"a1", "a2">>
    /\ collab.coordinator_id = "a1"
    /\ collab.max_rounds = 2
    /\ oracle[1] = "ok" /\ oracle[3] = "raise"
    /\ sent[4].prompt.latest.err
    /\ sent[4].prompt.latest.text = Reply("a1", 2)

\* The text of the last successful turn of an agent, None if it has none.
LatestResult(history, agent_id) ==
    LET succeeded == SelectSeq(history, LAMBDA ev :
                        ev.kind = "agent" /\ ev.agent_id = agent_id /\ ~ev.error)
    IN  IF succeeded = <<>> THEN NoText ELSE Last(succeeded).content.text

\* C35: the agent_status map stored in a round-summary event shares its
\* per-agent records with the live completion tracker, so the end-of-round
\* reset also rewrites the event: in the history returned by
\* collaborate_agents every round summary shows completed = false for every
\* agent (and the agent's latest result), even when that summary's
\* all_completed is true.
C35_SummariesShareStatus ==
    Returned =>
        \A i \in 1..Len(ReturnedEvents) :
            ReturnedEvents[i].kind = "round" =>
                /\ DOMAIN ReturnedEvents[i].agent_status = Range(collab.agent_ids)
                /\ \A a \in Range(collab.agent_ids) :
                      /\ ~ReturnedEvents[i].agent_status[a].completed
                      /\ ReturnedEvents[i].agent_status[a].result
                            = LatestResult(collab.history, a)

\* Reached: a returned history whose summary of round 1 says all_completed
\* and shows no agent completed, with the worker's result of round 2.
C35_Witness ==
    /\ Returned
    /\ collab.agent_ids = <<"a1", "a2">>
    /\ collab.max_rounds = 2
    /\ oracle = <<"ok", "ok", "raise", "ok">>
    /\ ReturnedEvents[4].kind = "round" /\ ReturnedEvents[4].round = 1
    /\ ReturnedEvents[4].all_completed
    /\ ~ReturnedEvents[4].agent_status["a1"].completed
    /\ ReturnedEvents[4].agent_status["a1"].result = Reply("a1", 1)
    /\ ReturnedEvents[4].agent_status["a2"].result = Reply("a2", 2)

\* The step is a ToolResultCache.set call.
SetStep == cache_result'.op = "set" /\ cache_result' # cache_result

\* The key of the set call of the step.
SetKey == GenerateCacheKey(cache_result'.tool_name, cache_result'.arguments)

\* C36: ToolResultCache.set evicts the oldest-timestamped entry whenever the
\* cache already holds max_size entries, also when the key being set is
\* already cached: overwriting an existing key at capacity removes a
\* different entry and leaves max_size-1 entries, unless the overwritten key
\* is itself the oldest.
C36_OverwriteEvicts ==
    [][(SetStep /\ Len(cache) >= max_size /\ cache # <<>>) =>
          /\ Len(cache_result'.removed) = 1
          /\ cache_result'.removed[1] \in Range(cache)
          /\ \A j \in 1..Len(cache) :
                ~IsoLess(cache[j].timestamp, cache_result'.removed[1].timestamp)
          /\ (Serialisable(cache_result'.arguments) /\ HasKey(cache, SetKey)) =>
                /\ ~cache_result'.raised
                /\ HasKey(cache', SetKey)
                /\ cache'[IndexOf(cache', SetKey)].result = cache_result'.result
                /\ IF cache_result'.removed[1].key # SetKey
                   THEN /\ Len(cache') = max_size - 1
                        /\ ~HasKey(cache', cache_result'.removed[1].key)
                   ELSE /\ Len(cache') = max_size
                        /\ {cache'[i].key : i \in 1..Len(cache')}
                              = {cache[i].key : i \in 1..Len(cache)}]_vars

\* Reached: on a full cache of two the newer key was set again; the older
\* entry is gone and one entry is left.
C36_Witness ==
    /\ max_size = 2
    /\ cache_result.op = "set" /\ ~cache_result.raised
    /\ Len(cache_result.removed) = 1
    /\ cache_result.removed[1].key
          # GenerateCacheKey(cache_result.tool_name, cache_result.arguments)
    /\ Len(cache) = 1
    /\ cache[1].key = GenerateCacheKey(cache_result.tool_name, cache_result.arguments)
    /\ IsoLess(IsoFormat(2), cache[1].timestamp)

\* Reached: on a full cache of two the oldest key was set again; it is the
\* entry removed and the cache is still full.
OldestOverwrittenInPlace ==
    /\ max_size = 2
    /\ cache_result.op = "set" /\ ~cache_result.raised
    /\ Len(cache_result.removed) = 1
    /\ cache_result.removed[1].key
          = GenerateCacheKey(cache_result.tool_name, cache_result.arguments)
    /\ Len(cache) = 2

\* The run has ended: execute returned or its exception left it.
RunEnded == run.pc \in {"done", "raised"}

\* The publish of the response raised.
ResponsePublishRaised ==
    \E i \in 1..Len(run.published) :
        run.published[i] = [kind |-> "response", ok |-> FALSE]

\* C37: a task that execute has already marked completed can still be
\* overwritten to failed: if publishing the response raises after
\* update_task(completed), the error path sets the same task's status to
\* failed and publishes an error message, so a terminal status is not final;
\* in every other run the task goes started -> completed or started -> failed
\* with exactly one terminal transition.
C37_CompletedThenFailed ==
    /\ run.row # 0 =>
          /\ task_history[run.row].task_id = run.task_id
          /\ task_history[run.row].status = Last(run.statuses)
    /\ (RunEnded /\ run.row # 0) =>
          IF ResponsePublishRaised
          THEN /\ run.statuses = <<"started", "completed", "failed">>
               /\ Len(run.published) = 2
               /\ run.published[1] = [kind |-> "response", ok |-> FALSE]
               /\ run.published[2].kind = "error"
          ELSE /\ run.statuses \in {<<"started", "completed">>, <<"started", "failed">>}
               /\ Last(run.statuses) = "completed"
                     <=> run.published = <<[kind |-> "response", ok |-> TRUE]>>
    /\ (~RunEnded /\ run.row # 0) =>
          run.statuses \in {<<"started">>, <<"started", "completed">>,
                            <<"started", "failed">>,
                            <<"started", "completed", "failed">>}
    /\ run.row = 0 => run.statuses = <<>>

\* Reached: the publish of the response raised; the task, completed, is
\* failed, and the error message was published.
C37_Witness ==
    /\ run.pc = "done"
    /\ run.statuses = <<"started", "completed", "failed">>
    /\ run.published = <<[kind |-> "response", ok |-> FALSE],
                         [kind |-> "error", ok |-> TRUE]>>
    /\ task_history[run.row].status = "failed"
    /\ task_history[run.row].result = "Error"

\* Reached: a second message of the client's task fails; the row the first,
\* completed run saved is failed with it.
EarlierRunFailedToo ==
    /\ run.pc = "done" /\ run.n = 2 /\ run.row = 2
    /\ run.statuses = <<"started", "failed">>
    /\ task_history[1].task_id = run.task_id
    /\ task_history[1].status = "failed"
    /\ Len(long_term_memory) = 1


\* The delete_agent calls that are suspended in the cleanup of their agent.
SuspendedDeletes ==
    {i \in DOMAIN lifecycle :
        lifecycle[i].op = "delete_agent" /\ lifecycle[i].pc = "close_all"}

\* C38: a delete_agent call returns false only at its existence check; every
\* call suspended in the agent's cleanup has passed the check, so several can
\* be suspended on one id.  When such a call resumes with the agent still
\* registered it removes the agent from the maps and returns true; when
\* another call has removed the agent meanwhile it raises (a KeyError unless
\* close_all itself raised) and never returns false.
C38_OverlappingDeletes ==
    [][/\ \A i \in DOMAIN lifecycle' \ DOMAIN lifecycle :
              lifecycle'[i].op = "delete_agent" =>
                  /\ lifecycle'[i].result = "False" <=> lifecycle'[i].agent_id \notin agents
                  /\ lifecycle'[i].pc = "close_all" => lifecycle'[i].agent_id \in agents
       /\ \A i \in SuspendedDeletes :
              lifecycle'[i].pc # "close_all" =>
                  LET agent_id == lifecycle[i].agent_id
                      result == lifecycle'[i].result
                  IN  /\ result \in {"True", "KeyError", "Exception"}
                      /\ result = "True" =>
                            /\ agent_id \in agents
                            /\ agent_id \notin agents' \cup request_handlers'
                            /\ lifecycle'[i].pc = "done"
                      /\ agent_id \notin agents =>
                            /\ lifecycle'[i].pc = "raised"
                            /\ UNCHANGED Maps
                      /\ result = "KeyError" =>
                            agent_id \notin agents \/ agent_id \notin clients]_vars

\* Two delete_agent calls on a1 overlapped in its cleanup: the first
\* returned true and the second raised KeyError.
C38_Witness ==
    \E i, j \in DOMAIN lifecycle :
        /\ i # j
        /\ lifecycle[i].op = "delete_agent" /\ lifecycle[j].op = "delete_agent"
        /\ lifecycle[i].agent_id = "a1" /\ lifecycle[j].agent_id = "a1"
        /\ lifecycle[i].result = "True"
        /\ lifecycle[j].result = "KeyError"
        /\ "a1" \notin agents

\* Both delete_agent calls on a1 are suspended in its cleanup at once.
TwoDeletesSuspended ==
    \E i, j \in SuspendedDeletes :
        i # j /\ lifecycle[i].agent_id = "a1" /\ lifecycle[j].agent_id = "a1"

\* Without an MCP client the cleanup does not suspend: the second delete of
\* a2 finds it gone at the check and returns false.
SecondDeleteReturnsFalse ==
    \E i, j \in DOMAIN lifecycle :
        /\ i < j
        /\ lifecycle[i].op = "delete_agent" /\ lifecycle[j].op = "delete_agent"
        /\ lifecycle[i].agent_id = "a2" /\ lifecycle[j].agent_id = "a2"
        /\ lifecycle[i].result = "True"
        /\ lifecycle[j].result = "False"

\* The update_agent calls between their delete and their five assignments.
UpdatesReinitialising ==
    {i \in DOMAIN lifecycle :
        lifecycle[i].op = "update_agent" /\ lifecycle[i].pc \in {"initialize", "connect"}}

BeingUpdated == {lifecycle[i].agent_id : i \in UpdatesReinitialising}

InNoMap(agent_id) ==
    agent_id \notin agents \cup agent_cards \cup request_handlers \cup task_stores
                    \cup DOMAIN agent_metadata

\* C39: while an update_agent call is between its delete and its
\* re-registration the agent id is in none of the manager's maps; a
\* send_message for the id then raises "not found", a collaborate_agents
\* call naming it is rejected with agent not found, a running collaboration
\* whose next turn belongs to it records an error turn for it, and when the
\* re-initialisation raises the maps stay as they are, without the agent.
C39_UpdateNotAtomic ==
    /\ [](\A agent_id \in BeingUpdated : InNoMap(agent_id))
    /\ [][/\ \A i \in DOMAIN lifecycle' \ DOMAIN lifecycle :
                (lifecycle'[i].op = "send_message" /\ lifecycle'[i].agent_id \in BeingUpdated)
                    => lifecycle'[i].pc = "raised" /\ lifecycle'[i].result = "ValueError"
          /\ (collab.pc = "idle" /\ collab'.pc # "idle"
                  /\ Range(collab'.agent_ids) \cap BeingUpdated # {})
                => collab'.pc = "raised" /\ collab'.error = "agent_not_found"
          /\ (collab.pc = "await" /\ collab' # collab)
                => /\ \A k \in (Len(collab.history) + 2)..Len(collab'.history) :
                          collab'.history[k].kind = "agent"
                              => /\ collab'.history[k].error
                                 /\ collab'.history[k].agent_id \notin request_handlers
                   /\ collab'.pc = "await" => CurrentAgent(collab') \in request_handlers
                   /\ (/\ collab.idx + 1 < Len(collab.agent_ids)
                       /\ collab.agent_ids[collab.idx + 2] \in BeingUpdated)
                          => \E k \in (Len(collab.history) + 2)..Len(collab'.history) :
                                /\ collab'.history[k].error
                                /\ collab'.history[k].agent_id = collab.agent_ids[collab.idx + 2]
                                /\ collab'.history[k].round = collab.round_num + 1
          /\ \A i \in UpdatesReinitialising :
                lifecycle'[i].pc = "raised"
                    => /\ UNCHANGED Maps
                       /\ lifecycle[i].agent_id \notin agents' \cup request_handlers']_vars

\* An update of a1 is re-initialising and a send_message to a1 made
\* meanwhile has raised "not found".
C39_Witness ==
    \E i, j \in DOMAIN lifecycle :
        /\ i < j
        /\ i \in UpdatesReinitialising
        /\ lifecycle[i].agent_id = "a1"
        /\ lifecycle[j].op = "send_message" /\ lifecycle[j].agent_id = "a1"
        /\ lifecycle[j].result = "ValueError"

\* A collaboration that started with a1 registered has recorded an error
\* turn for a1 while the update of a1 is still re-initialising.
ErrorTurnDuringUpdate ==
    /\ "a1" \in BeingUpdated
    /\ collab.pc = "done"
    /\ \E k \in DOMAIN collab.history :
          collab.history[k].error /\ collab.history[k].agent_id = "a1"

\* A collaboration called during the update was rejected.
RejectedDuringUpdate ==
    /\ BeingUpdated # {}
    /\ collab.pc = "raised" /\ collab.error = "agent_not_found"

\* memory.initialize raised inside an update of a1: a1 is gone.
UpdateRaisedAgentGone ==
    \E i \in DOMAIN lifecycle :
        /\ lifecycle[i].op = "update_agent" /\ lifecycle[i].agent_id = "a1"
        /\ lifecycle[i].pc = "raised" /\ lifecycle[i].result = "Exception"
        /\ InNoMap("a1")
        /\ \A j \in DOMAIN lifecycle : lifecycle[j].pc \in {"done", "raised"}

\* C40: whenever another coroutine can run, after any interleaving of
\* create_agent, update_agent, delete_agent and cleanup_all, the five maps of
\* the manager have the same key set.
C40_SameKeySets ==
    /\ agent_cards = agents
    /\ request_handlers = agents
    /\ task_stores = agents
    /\ DOMAIN agent_metadata = agents

\* Calls of all four kinds have run, one was suspended while another changed
\* the maps, and the maps are not back at their first value.
C40_Witness ==
    /\ \E i, j \in DOMAIN lifecycle :
          /\ i < j
          /\ lifecycle[i].op = "update_agent" /\ lifecycle[i].pc = "done"
          /\ lifecycle[j].op = "delete_agent" /\ lifecycle[j].result = "True"
    /\ \E i \in DOMAIN lifecycle : lifecycle[i].op = "create_agent" /\ lifecycle[i].pc = "done"
    /\ agents # InitialAgents /\ agents # {}

\* cleanup_all found the dictionary changed under its iteration and cleared
\* nothing.
CleanupAllInterrupted ==
    \E i \in DOMAIN lifecycle :
        /\ lifecycle[i].op = "cleanup_all"
        /\ lifecycle[i].result = "RuntimeError"
        /\ agents # {}

====
